---------------------------- MODULE Spec2Model ----------------------------
(***************************************************************************)
(* Scan-to-transaction pipeline of the cafeteria RFID station:             *)
(*   ReservationService.confirmReservation  (src/unnamed/part_004)         *)
(*   PurchaseService.completePurchase       (src/services/authService.js)  *)
(*   UserService                            (src/services/userService.js)  *)
(*   RFIDService.processCardScan            (src/services/rfidService.js)  *)
(*   ReservationService.updateReservationStatus (src/unnamed/part_004)     *)
(*   POST /complete and the completePurchase command                       *)
(*                          (src/routes/purchases.js, src/server.js)       *)
(*   RFIDService initialize / reconnect / disconnect                       *)
(* Every awaited storage call is a step of its own: the other tasks of the *)
(* event loop may run between the call and its completion, and the call    *)
(* may fail.  Money is counted in cents, time is a logical clock.          *)
(***************************************************************************)
EXTENDS Integers, Sequences, FiniteSets, TLC

VARIABLES
  users,         \* record store: User collection, by _id
  reservations,  \* record store: MealReservation collection, by _id
  purchases,     \* record store: Purchase collection (a set of documents)
  now,           \* the clock read by new Date()
  servedWrites,  \* history: per reservation, how many saves wrote status 'served'
  cpc,           \* confirmReservation call: position
  crid,          \* confirmReservation call: the reservationId argument
  cdoc,          \* confirmReservation call: the loaded (populated) reservation document
  cpurchase,     \* confirmReservation call: the Purchase document being saved
  cres,          \* confirmReservation call: what the call returned or threw
  cfault,        \* history: a storage call of this confirmReservation call failed
  cprior,        \* history: a confirmation of the same id had succeeded when the call began
  centry,        \* confirmReservation call: the entry point that made it
  cout,          \* confirmReservation call: the events its handler sent to clients
  scanHistory,   \* RFIDService.scanHistory, newest first
  lastScanTime,  \* RFIDService.lastScanTime
  nScans,        \* history: how many scans have recorded an entry in scanHistory
  spc,           \* processCardScan / validateUserAccess task: position
  sraw,          \* task: the uid argument
  sentry,        \* task: the entry point that received the scan
  suid,          \* task: uidString
  sdoc,          \* task: the User document it holds (userData)
  sfresh,        \* task: the User document updateLastScan loaded
  saccess,       \* task: accessCheck, the result of validateUserAccess
  slog,          \* history: the events the task emitted and the service calls it made
  sfault,        \* history: a storage call of this task failed
  upc,           \* updateReservationStatus call: position
  uarg,          \* updateReservationStatus call: reservationId and status arguments
  udoc,          \* updateReservationStatus call: the loaded reservation document
  qres,          \* the last read-path call of a service: its name and what came back
  bpc,           \* purchase request: position
  bentry,        \* purchase request: the entry point that received it
  breq,          \* purchase request: the purchaseData submitted
  bpurchase,     \* purchase request: the Purchase document being saved
  bres,          \* purchase request: what the caller was answered
  bout,          \* purchase request: the events its handler sent to clients
  mockMode,      \* RFIDService.mockMode
  connected,     \* RFIDService.connected
  reader,        \* RFIDService.reader
  nfc,           \* RFIDService.nfc
  ipc,           \* RFIDService.initialize: position
  rpc,           \* RFIDService.reconnect call: position
  discovered,    \* history: initializeNFCReader has run (hardware discovery)
  fellBack,      \* history: initialize took its fallback to the mock reader
  autoReconnect, \* RFIDService.readerConfig.autoReconnect
  readerName,    \* RFIDService.readerConfig.readerName
  timers,        \* reconnect timers pending (setTimeout(() => this.reconnect()))
  announce,      \* rfidConnected timers of initializeMockReader pending
  live,          \* NFC instances created and not closed
  mevent,        \* history: the last handler of the manager that ran
  rover,         \* history: the reconnect call began while another was in flight
  attached,      \* the readers whose handlers setupCardHandlers installed, not ended or closed
  released       \* history: the shutdown called disconnect() and no caller has invoked reconnect() since

confirmVars == <<cpc, crid, cdoc, cpurchase, cres, cfault, cprior, centry, cout>>
storeVars == <<users, reservations, purchases, servedWrites>>
readerVars == <<scanHistory, lastScanTime, nScans>>
scanVars == <<scanHistory, lastScanTime, nScans, spc, sraw, sentry, suid, sdoc,
              sfresh, saccess, slog, sfault>>
updateVars == <<upc, uarg, udoc, qres>>
buyVars == <<bpc, bentry, breq, bpurchase, bres, bout>>
managerVars == <<mockMode, connected, reader, nfc, ipc, rpc, discovered, fellBack,
                 autoReconnect, readerName, timers, announce, live, mevent, rover,
                 attached, released>>
restVars == <<updateVars, buyVars, managerVars>>
vars == <<users, reservations, purchases, now, servedWrites,
          cpc, crid, cdoc, cpurchase, cres, cfault, cprior, centry, cout,
          scanHistory, lastScanTime, nScans, spc, sraw, sentry, suid, sdoc, sfresh,
          saccess, slog, sfault,
          upc, uarg, udoc, qres, bpc, bentry, breq, bpurchase, bres, bout,
          mockMode, connected, reader, nfc, ipc, rpc, discovered, fellBack,
          autoReconnect, readerName, timers, announce, live, mevent, rover,
                 attached, released>>

-----------------------------------------------------------------------------
(* Bounds of the model *)

MaxCalls == 2
MaxScans == 2
MaxTime == 3
HistMaxScans == 102
DayLength == 10
MaxUpdates == 1
MaxBuys == 1
MaxReconnects == 3
MaxEntryScans == 1

(* RFIDService keeps the last 100 scans *)
HistoryLimit == 100

(* null / undefined *)
NULL == 0 - 1
Undefined == "undefined"

Calls == 1..MaxCalls
Scans == 1..MaxScans
UserIds == {1, 2}
FoodIds == {1, 2}
ReservationIds == {1}
MissingReservationId == 9
Times == 1..MaxTime
Updates == 1..MaxUpdates
Buys == 1..MaxBuys
Reconnects == 1..MaxReconnects
EntryScans == 1..MaxEntryScans

StationId == "STATION_001"
StorageError == "storage failure"

(* RFIDService.reader: null, the mock reader, or a hardware reader by name *)
NoReader == "null"
MockReader == "Mock ACR1252"
HardwareReader == "ACR1252"

(* names a reader may advertise on discovery, and values of RFID_READER_NAME
   (readerConfig.readerName, 'ACR1252' unless configured) *)
ReaderNames == {HardwareReader, "ACR122U", "OMNIKEY"}
ConfiguredNames == {"ACR1252", "OMNIKEY"}

-----------------------------------------------------------------------------
(* Schemas *)

DefaultBlockInfo ==
  [reason |-> "", notes |-> "", blockedAt |-> NULL, blockedBy |-> NULL,
   expiresAt |-> NULL, autoUnblockProcessed |-> FALSE]

UidOf(id) == IF id = 1 THEN <<"A", "1">> ELSE <<"B", "2">>

NewUser(id) ==
  [id |-> id, uid |-> UidOf(id), user_category |-> IF id = 1 THEN "student" ELSE "staff",
   isActive |-> TRUE, lastScanAt |-> NULL, scanCount |-> 0,
   isBlocked |-> FALSE, blockInfo |-> DefaultBlockInfo]

Food(id) == [name |-> IF id = 1 THEN "soup" ELSE "pasta",
             price |-> IF id = 1 THEN 350 ELSE 200]

Statuses == {"pending", "confirmed", "prepared", "served", "cancelled"}

NoUser == [id |-> 0]

NewReservation(student, food, qty, status, est, act, date) ==
  [studentId |-> student, foodId |-> food, quantity |-> qty, mealType |-> "lunch",
   reservationDate |-> date,
   status |-> status, estimatedCost |-> est, actualCost |-> act,
   servedAt |-> NULL, servedByStation |-> "", rfidProcessedAt |-> NULL]

-----------------------------------------------------------------------------
(* JavaScript's a || b on numbers and null: b when a is null, 0 (or NaN) *)

Truthy(a) == a # NULL /\ a # 0

OrElse(a, b) == IF Truthy(a) THEN a ELSE b

-----------------------------------------------------------------------------
(* MealReservation.markServedByRFID: the in-memory document before save() *)

markServedByRFID(doc, stationId) ==
  [doc EXCEPT !.status = "served", !.servedAt = now,
              !.rfidProcessedAt = now, !.servedByStation = stationId]

(* save() of that document sends the modified paths only *)
SaveServed(stored, doc) ==
  [stored EXCEPT !.status = doc.status, !.servedAt = doc.servedAt,
                 !.rfidProcessedAt = doc.rfidProcessedAt,
                 !.servedByStation = doc.servedByStation]

(* The unit price confirmReservation bills *)
UnitCost(doc) == OrElse(doc.actualCost, doc.estimatedCost)

(* purchaseData built by confirmReservation *)
ReservationPurchaseData(doc) ==
  [userId |-> doc.studentId,
   uid |-> doc.student.uid,
   userCategory |-> IF doc.student.user_category = "" THEN "student"
                    ELSE doc.student.user_category,
   items |-> << [foodId |-> doc.foodId, name |-> doc.food.name,
                 price |-> UnitCost(doc), quantity |-> doc.quantity,
                 subtotal |-> UnitCost(doc) * doc.quantity] >>,
   totalAmount |-> UnitCost(doc) * doc.quantity,
   cafeteriaStation |-> StationId,
   processedBy |-> "rfid_reservation_system",
   notes |-> << "Reservation fulfilled" >>,
   paymentMethod |-> Undefined,
   paidAmount |-> NULL,
   paymentStatus |-> "pending"]

-----------------------------------------------------------------------------
(* PurchaseService.completePurchase, up to the awaited purchase.save() *)

InvalidPurchaseData(data) == data.userId = NULL \/ Len(data.items) = 0

PaymentStatusAlwaysPending(data) == "pending"

PaymentStatusOf(data) == IF data.paymentMethod = "cash" THEN "paid" ELSE "pending"

ChangeOf(data) ==
  IF data.paymentMethod = "cash" /\ data.paidAmount > data.totalAmount
  THEN data.paidAmount - data.totalAmount ELSE NULL

NotesOf(data) ==
  IF data.paymentMethod = "cash"
  THEN IF data.paidAmount > data.totalAmount
       THEN data.notes \o << "Cash payment", "Change" >>
       ELSE data.notes \o << "Cash payment" >>
  ELSE IF data.paymentMethod = "monthly_billing"
       THEN data.notes \o << "Added to monthly bill - parent will be charged" >>
       ELSE data.notes

(* new Purchase({...}); by and rid are history fields: the call that made it and
   the reservation its 'Reservation fulfilled' note speaks of *)
NewPurchase(data, by, rid) ==
  [by |-> by, rid |-> rid,
   userId |-> data.userId, uid |-> data.uid, userCategory |-> data.userCategory,
   items |-> data.items, totalAmount |-> data.totalAmount,
   cafeteriaStation |-> data.cafeteriaStation,
   purchasedAt |-> now,
   paymentStatus |-> PaymentStatusOf(data),
   paidAt |-> IF data.paymentMethod = "cash" THEN now ELSE NULL,
   paymentMethod |-> IF data.paymentMethod = Undefined THEN "monthly_billing"
                     ELSE data.paymentMethod,
   cashAmount |-> IF data.paymentMethod = "cash" THEN data.paidAmount ELSE NULL,
   change |-> ChangeOf(data),
   notes |-> NotesOf(data),
   processedBy |-> data.processedBy]

(* purchaseSchema's validators, run by save() *)
PurchaseValid(p) ==
  /\ p.userId # NULL
  /\ p.userCategory \in {"staff", "student"}
  /\ p.paymentMethod \in {"cash", "monthly_billing"}
  /\ p.totalAmount >= 0
  /\ \A i \in 1..Len(p.items) :
       p.items[i].price >= 0 /\ p.items[i].quantity >= 1 /\ p.items[i].subtotal >= 0

(* User.findByIdAndUpdate(userId, {lastScanAt, $inc: {scanCount: 1}}) *)
BumpScan(us, id) ==
  IF id \in DOMAIN us
  THEN [us EXCEPT ![id].lastScanAt = now, ![id].scanCount = @ + 1]
  ELSE us

-----------------------------------------------------------------------------
(* Results of confirmReservation *)

NoResult == [success |-> FALSE, error |-> << >>]
Success == [success |-> TRUE, error |-> << >>]
Failure(msg) == [success |-> FALSE, error |-> msg]

ErrNotFound == << "Reservation not found" >>
ErrAlreadyServed == << "Reservation has already been served" >>
ErrCancelled == << "Cannot confirm a cancelled reservation" >>
ServedButUnbilled == "Reservation served but failed to create purchase record"
ErrUnbilled(inner) == << ServedButUnbilled, inner >>

(* the two status checks that follow the lookup: the error thrown, or << >> *)
StatusRefusalNoServedCheck(status) ==
  IF status = "cancelled" THEN ErrCancelled ELSE << >>

StatusRefusalNoCancelledCheck(status) ==
  IF status = "served" THEN ErrAlreadyServed ELSE << >>

StatusRefusal(status) ==
  IF status = "served" THEN ErrAlreadyServed
  ELSE IF status = "cancelled" THEN ErrCancelled
  ELSE << >>

NoDoc == [status |-> "none"]
NoPurchase == [by |-> 0]

(* an event sent to the requesting client (socket.emit, res.json) or to all
   clients (io.emit) *)
Sent(name, to) == [name |-> name, to |-> to]

AnswerThenBroadcast(entry, own, update, error, success) ==
  IF entry = "socket"
  THEN IF success
       THEN << Sent(own, "requester"), Sent(update, "all") >>
       ELSE << Sent(error, "requester"), Sent(update, "all") >>
  ELSE IF entry = "http" THEN << Sent("response", "requester") >>
  ELSE << >>

(* what the handler of a completePurchase or confirmReservation request sends
   once the service call has returned or thrown: the socket handler answers
   the requester and then notifies all clients, or reports the error; the HTTP
   route only responds; a call made by another service sends nothing *)
Answer(entry, own, update, error, success) ==
  IF entry = "socket"
  THEN IF success
       THEN << Sent(own, "requester"), Sent(update, "all") >>
       ELSE << Sent(error, "requester") >>
  ELSE IF entry = "http" THEN << Sent("response", "requester") >>
  ELSE << >>

Finish(c, result, faulty) ==
  /\ cpc' = [cpc EXCEPT ![c] = "done"]
  /\ cres' = [cres EXCEPT ![c] = result]
  /\ cfault' = [cfault EXCEPT ![c] = @ \/ faulty]
  /\ cout' = [cout EXCEPT ![c] =
                Answer(centry[c], "reservationConfirmed", "reservationUpdate",
                       "reservationError", result.success)]

-----------------------------------------------------------------------------
(* ReservationService.confirmReservation(reservationId, purchaseService) *)

(* findById(...).populate('foodId').populate('studentId') *)
Populate(stored) ==
  [f \in DOMAIN stored \cup {"student", "food"} |->
     IF f = "student" THEN users[stored.studentId]
     ELSE IF f = "food" THEN Food(stored.foodId)
     ELSE stored[f]]

(* the call is made: MealReservation.findById(...).populate(...) is awaited *)
ConfirmStart(c, entry, r) ==
  /\ cpc[c] = "idle"
  /\ \A d \in Calls : d < c => cpc[d] # "idle"
  /\ cpc' = [cpc EXCEPT ![c] = "find"]
  /\ crid' = [crid EXCEPT ![c] = r]
  /\ centry' = [centry EXCEPT ![c] = entry]
  /\ cprior' = [cprior EXCEPT ![c] =
                  \E d \in Calls : cpc[d] = "done" /\ cres[d].success /\ crid[d] = r]
  /\ UNCHANGED <<storeVars, now, cdoc, cpurchase, cres, cfault, cout>>
  /\ UNCHANGED <<scanVars, restVars>>

(* findById returns; the status checks; markServedByRFID starts its save() *)
ConfirmFind(c, ok) ==
  /\ cpc[c] = "find"
  /\ IF ~ok
     THEN Finish(c, Failure(<< StorageError >>), TRUE) /\ UNCHANGED cdoc
     ELSE IF crid[c] \notin DOMAIN reservations
     THEN Finish(c, Failure(ErrNotFound), FALSE) /\ UNCHANGED cdoc
     ELSE LET stored == reservations[crid[c]]
              loaded == Populate(stored)
          IN IF StatusRefusal(stored.status) # << >>
             THEN Finish(c, Failure(StatusRefusal(stored.status)), FALSE) /\ UNCHANGED cdoc
             ELSE /\ cdoc' = [cdoc EXCEPT ![c] = markServedByRFID(loaded, StationId)]
                  /\ cpc' = [cpc EXCEPT ![c] = "markSave"]
                  /\ UNCHANGED <<cres, cfault, cout>>
  /\ UNCHANGED <<storeVars, now, crid, centry, cpurchase, cprior>>
  /\ UNCHANGED <<scanVars, restVars>>

(* the save() of markServedByRFID returns; purchaseData is built and
   completePurchase runs up to its awaited purchase.save() *)
ConfirmMarkSave(c, ok) ==
  /\ cpc[c] = "markSave"
  /\ IF ~ok
     THEN /\ Finish(c, Failure(<< StorageError >>), TRUE)
          /\ UNCHANGED <<reservations, servedWrites, cpurchase>>
     ELSE LET data == ReservationPurchaseData(cdoc[c])
          IN /\ reservations' = [reservations EXCEPT ![crid[c]] = SaveServed(@, cdoc[c])]
             /\ servedWrites' = [servedWrites EXCEPT ![crid[c]] = @ + 1]
             /\ IF InvalidPurchaseData(data)
                THEN /\ Finish(c, Failure(ErrUnbilled("Invalid purchase data")), FALSE)
                     /\ UNCHANGED cpurchase
                ELSE /\ cpurchase' = [cpurchase EXCEPT ![c] = NewPurchase(data, c, crid[c])]
                     /\ cpc' = [cpc EXCEPT ![c] = "purchaseSave"]
                     /\ UNCHANGED <<cres, cfault, cout>>
  /\ UNCHANGED <<users, purchases, now, crid, centry, cdoc, cprior>>
  /\ UNCHANGED <<scanVars, restVars>>

(* purchase.save() returns; User.findByIdAndUpdate is awaited *)
ConfirmPurchaseSave(c, ok) ==
  /\ cpc[c] = "purchaseSave"
  /\ IF ~PurchaseValid(cpurchase[c])
     THEN Finish(c, Failure(ErrUnbilled("validation failed")), FALSE) /\ UNCHANGED purchases
     ELSE IF ~ok
     THEN Finish(c, Failure(ErrUnbilled(StorageError)), TRUE) /\ UNCHANGED purchases
     ELSE /\ purchases' = purchases \cup {cpurchase[c]}
          /\ cpc' = [cpc EXCEPT ![c] = "userUpdate"]
          /\ UNCHANGED <<cres, cfault, cout>>
  /\ UNCHANGED <<users, reservations, servedWrites, now, crid, centry, cdoc, cpurchase, cprior>>
  /\ UNCHANGED <<scanVars, restVars>>

(* findByIdAndUpdate returns; completePurchase and confirmReservation return *)
ConfirmUserUpdate(c, ok) ==
  /\ cpc[c] = "userUpdate"
  /\ IF ~ok
     THEN Finish(c, Failure(ErrUnbilled(StorageError)), TRUE) /\ UNCHANGED users
     ELSE /\ users' = BumpScan(users, cpurchase[c].userId)
          /\ Finish(c, Success, FALSE)
  /\ UNCHANGED <<reservations, purchases, servedWrites, now, crid, centry, cdoc, cpurchase, cprior>>
  /\ UNCHANGED <<scanVars, restVars>>

-----------------------------------------------------------------------------
(* processCardScan: uid.toString('hex').toUpperCase() / uid.toString().toUpperCase() *)

HexDigits == << "0", "1", "2", "3", "4", "5", "6", "7",
                "8", "9", "a", "b", "c", "d", "e", "f" >>

RECURSIVE ToHex(_)
ToHex(bytes) ==
  IF bytes = << >> THEN << >>
  ELSE << HexDigits[(Head(bytes) \div 16) + 1], HexDigits[(Head(bytes) % 16) + 1] >>
       \o ToHex(Tail(bytes))

UpperChar(ch) ==
  CASE ch = "a" -> "A" [] ch = "b" -> "B" [] ch = "c" -> "C"
    [] ch = "d" -> "D" [] ch = "e" -> "E" [] ch = "f" -> "F"
    [] OTHER -> ch

toUpperCase(str) == [i \in 1..Len(str) |-> UpperChar(str[i])]

RawBuffer(bytes) == [kind |-> "buffer", data |-> bytes]
RawString(chars) == [kind |-> "string", data |-> chars]
RawUndefined == [kind |-> "undefined", data |-> << >>]
NoRaw == [kind |-> "none", data |-> << >>]

UidStringNoUpperCase(raw) ==
  IF raw.kind = "buffer" THEN ToHex(raw.data) ELSE raw.data

UidString(raw) ==
  IF raw.kind = "buffer" THEN toUpperCase(ToHex(raw.data)) ELSE toUpperCase(raw.data)

(* the card of user 1 read by the reader, the card of user 2 typed in lower
   case, a card nobody owns, and a manualScan message without a uid *)
UnknownCard == RawString(<< "F", "F" >>)
RawUids == {RawBuffer(<< 161 >>), RawString(<< "b", "2" >>), UnknownCard, RawUndefined}

-----------------------------------------------------------------------------
(* What a task emits (io.emit) and which service calls it makes, in order *)

Emit(name, uid, success, error, message, data) ==
  [kind |-> "emit", name |-> name, uid |-> uid, success |-> success,
   error |-> error, message |-> message, data |-> data]

Call(name, data) ==
  [kind |-> "call", name |-> name, uid |-> << >>, success |-> FALSE,
   error |-> "", message |-> "", data |-> data]

NoData == << >>

(* the first lines of processCardScan after the history update *)
StartLogNoCardScanned(uid, t) == << Call("getUserByUID", NoData) >>

StartLog(uid, t) ==
  << Emit("cardScanned", uid, FALSE, "", "processing", [timestamp |-> t]),
     Call("getUserByUID", NoData) >>

-----------------------------------------------------------------------------
(* RFIDService.scanHistory *)

TrimHistoryDropNewest(h) ==
  IF Len(h) > HistoryLimit THEN SubSeq(h, 2, Len(h)) ELSE h

(* if (length > 100) scanHistory = scanHistory.slice(0, 100) *)
TrimHistory(h) ==
  IF Len(h) > HistoryLimit THEN SubSeq(h, 1, HistoryLimit) ELSE h

(* scanHistory.unshift({uid, timestamp, processed: false}); seq is a history
   field: the number of the scan that made the entry *)
RecordScan(h, uid, t, k) ==
  TrimHistory(<< [uid |-> uid, timestamp |-> t, processed |-> FALSE, seq |-> k] >> \o h)

(* scanHistory.findIndex(scan => scan.uid === uidString), 0 for -1 *)
FindIndex(h, uid) ==
  LET hits == {i \in 1..Len(h) : h[i].uid = uid}
  IN IF hits = {} THEN 0 ELSE CHOOSE i \in hits : \A j \in hits : i <= j

MarkProcessed(h, uid) ==
  IF FindIndex(h, uid) = 0 THEN h
  ELSE [h EXCEPT ![FindIndex(h, uid)].processed = TRUE]

-----------------------------------------------------------------------------
(* UserService *)

(* User.findOne({ uid, isActive: true }) *)
FindActiveByUidAnyCard(us, uid) ==
  LET hit == {id \in DOMAIN us : us[id].isActive}
  IN IF hit = {} THEN NoUser ELSE us[CHOOSE id \in hit : \A j \in hit : id <= j]

FindActiveByUid(us, uid) ==
  LET hit == {id \in DOMAIN us : us[id].uid = uid /\ us[id].isActive}
  IN IF hit = {} THEN NoUser ELSE us[CHOOSE id \in hit : TRUE]

Granted == [canAccess |-> TRUE, reason |-> "", message |-> "", expiresAt |-> NULL]
Denied(reason, message, expiresAt) ==
  [canAccess |-> FALSE, reason |-> reason, message |-> message, expiresAt |-> expiresAt]
NoAccess == Denied("", "", NULL)
SystemError ==
  Denied("System error", "Unable to validate account access. Please try again.", NULL)

(* user.blockInfo.expiresAt && new Date() > user.blockInfo.expiresAt *)
BlockExpiredAtExpiry(doc, t) ==
  doc.blockInfo.expiresAt # NULL /\ t >= doc.blockInfo.expiresAt

BlockExpired(doc, t) ==
  doc.blockInfo.expiresAt # NULL /\ t > doc.blockInfo.expiresAt

(* validateUserAccess: the branch that awaits user.save() *)
NeedsUnblock(doc, t) == doc.isActive /\ doc.isBlocked /\ BlockExpired(doc, t)

(* the auto-unblock of the document in memory *)
UnblockedKeepsExpiry(doc) ==
  [doc EXCEPT !.isBlocked = FALSE,
              !.blockInfo = [DefaultBlockInfo EXCEPT !.expiresAt = doc.blockInfo.expiresAt]]

Unblocked(doc) ==
  [doc EXCEPT !.isBlocked = FALSE, !.blockInfo = DefaultBlockInfo]

(* save() of that document sends the modified paths only *)
SaveUnblock(stored, doc) ==
  [stored EXCEPT !.isBlocked = doc.isBlocked, !.blockInfo = doc.blockInfo]

(* validateUserAccess: what it returns on the branches that await nothing *)
AccessVerdict(doc) ==
  IF ~doc.isActive
  THEN Denied("Account is inactive",
              "This account has been deactivated. Please contact administration.", NULL)
  ELSE IF doc.isBlocked
  THEN Denied("Account is blocked",
              IF doc.blockInfo.reason # "" THEN doc.blockInfo.reason
              ELSE "This account has been temporarily blocked.",
              doc.blockInfo.expiresAt)
  ELSE Granted

(* the arguments of a validateUserAccess call, kept in the task's log *)
CheckInput(doc, t) ==
  [id |-> doc.id, isActive |-> doc.isActive, isBlocked |-> doc.isBlocked,
   expiresAt |-> doc.blockInfo.expiresAt, at |-> t]

(* validateUserAccess(doc) is called by task s: it returns (the task moves to
   donePc) or awaits user.save() (savePc) *)
Validate(s, doc, savePc, donePc) ==
  IF NeedsUnblock(doc, now)
  THEN /\ sdoc' = [sdoc EXCEPT ![s] = Unblocked(doc)]
       /\ spc' = [spc EXCEPT ![s] = savePc]
       /\ slog' = [slog EXCEPT ![s] = @ \o << Call("validateUserAccess", CheckInput(doc, now)),
                                              Call("user.save", NoData) >>]
       /\ UNCHANGED saccess
  ELSE /\ sdoc' = [sdoc EXCEPT ![s] = doc]
       /\ saccess' = [saccess EXCEPT ![s] = AccessVerdict(doc)]
       /\ spc' = [spc EXCEPT ![s] = donePc]
       /\ slog' = [slog EXCEPT ![s] = @ \o << Call("validateUserAccess", CheckInput(doc, now)) >>]

(* the awaited user.save() returns or throws; validateUserAccess returns *)
ValidateSaved(s, ok, donePc) ==
  /\ IF ok
     THEN /\ users' = [users EXCEPT ![sdoc[s].id] = SaveUnblock(@, sdoc[s])]
          /\ saccess' = [saccess EXCEPT ![s] = Granted]
     ELSE /\ UNCHANGED users
          /\ saccess' = [saccess EXCEPT ![s] = SystemError]
  /\ spc' = [spc EXCEPT ![s] = donePc]
  /\ sfault' = [sfault EXCEPT ![s] = @ \/ ~ok]

(* User.updateLastScan on the freshly loaded document *)
updateLastScan(doc) == [doc EXCEPT !.lastScanAt = now, !.scanCount = @ + 1]

SaveLastScan(stored, doc) ==
  [stored EXCEPT !.lastScanAt = doc.lastScanAt, !.scanCount = doc.scanCount]

-----------------------------------------------------------------------------
(* ReservationService.getTodayReservations *)

StartOfDay(t) == t - (t % DayLength)
EndOfDay(t) == StartOfDay(t) + DayLength - 1

TodayReservationsAnyStatus(rs, userId, t) ==
  {r \in DOMAIN rs :
     /\ rs[r].studentId = userId
     /\ rs[r].reservationDate >= StartOfDay(t)
     /\ rs[r].reservationDate <= EndOfDay(t)}

TodayReservations(rs, userId, t) ==
  {r \in DOMAIN rs :
     /\ rs[r].studentId = userId
     /\ rs[r].reservationDate >= StartOfDay(t)
     /\ rs[r].reservationDate <= EndOfDay(t)
     /\ rs[r].status \in {"pending", "confirmed", "prepared"}}

-----------------------------------------------------------------------------
(* RFIDService.processCardScan(uid) *)

Profile(doc) ==
  [id |-> doc.id, uid |-> doc.uid, user_category |-> doc.user_category,
   scanCount |-> doc.scanCount, lastScanAt |-> doc.lastScanAt,
   isActive |-> doc.isActive, isBlocked |-> doc.isBlocked]

(* the entry points of a scan: reader.on('card'), the manualScan message of
   a client, and POST /manual-scan *)
ScanEntries == {"card", "socket", "http"}

(* simulateScan: the error it throws, or "" *)
simulateScanRefusal(mock) ==
  IF ~mock THEN "Simulate scan only available in mock mode" ELSE ""

(* POST /manual-scan: the error answered before processCardScan, or "" *)
ManualScanRefusal(raw, mock) ==
  IF raw.kind = "undefined" THEN "UID is required"
  ELSE IF ~mock THEN "Manual scan only available in mock mode"
  ELSE simulateScanRefusal(mock)

EntryRefusal(entry, raw, mock) ==
  IF entry = "http" THEN ManualScanRefusal(raw, mock) ELSE ""

(* res.status(...).json({success: false, error}) *)
Respond(status, error) ==
  [kind |-> "respond", name |-> status, uid |-> << >>, success |-> FALSE,
   error |-> error, message |-> "", data |-> NoData]

(* uid.toString() throws a TypeError *)
ToStringThrows(raw) == raw.kind = "undefined"

(* uid.toString() without an encoding: a string as it is, a Buffer decoded as
   text *)
toString(raw) ==
  IF raw.kind = "buffer" THEN [i \in 1..Len(raw.data) |-> "?"] ELSE raw.data

(* the catch of processCardScan *)
ProcessingError(raw) ==
  << Emit("scanResult", toString(raw), FALSE, "Processing error",
          "Failed to process card scan", NoData) >>

(* the catch of the caller when processCardScan rejects *)
CallerCatchSilent(entry) == << >>

CallerCatch(entry) ==
  IF entry = "card"
  THEN << Emit("scanError", << >>, FALSE, "TypeError", "Failed to process card",
               [to |-> "all"]) >>
  ELSE IF entry = "socket"
  THEN << Emit("scanError", << >>, FALSE, "TypeError",
               "Failed to process manual scan", [to |-> "requester"]) >>
  ELSE << Respond("500", "TypeError") >>

(* the entry point's own checks, then the synchronous head of processCardScan:
   lastScanTime, the history entry, cardScanned; then getUserByUID is awaited.
   Without a uid, uid.toString() throws in the try block and again in the
   catch block: the call rejects and the caller's catch runs *)
ScanStart(s, entry, raw) ==
  /\ spc[s] = "idle"
  /\ entry = "card" => (nfc = "open" /\ reader \in ReaderNames)
  /\ sraw' = [sraw EXCEPT ![s] = raw]
  /\ sentry' = [sentry EXCEPT ![s] = entry]
  /\ IF EntryRefusal(entry, raw, mockMode) # ""
     THEN /\ spc' = [spc EXCEPT ![s] = "refused"]
          /\ slog' = [slog EXCEPT ![s] =
                        << Respond("400", EntryRefusal(entry, raw, mockMode)) >>]
          /\ UNCHANGED <<lastScanTime, scanHistory, nScans, suid>>
     ELSE IF ToStringThrows(raw)
     THEN /\ lastScanTime' = now
          /\ spc' = [spc EXCEPT ![s] = "threw"]
          /\ slog' = [slog EXCEPT ![s] =
                        IF ToStringThrows(raw) THEN CallerCatch(entry)
                        ELSE ProcessingError(raw)]
          /\ UNCHANGED <<scanHistory, nScans, suid>>
     ELSE /\ lastScanTime' = now
          /\ suid' = [suid EXCEPT ![s] = UidString(raw)]
          /\ scanHistory' = RecordScan(scanHistory, UidString(raw), now, nScans + 1)
          /\ nScans' = nScans + 1
          /\ slog' = [slog EXCEPT ![s] = StartLog(UidString(raw), now)]
          /\ spc' = [spc EXCEPT ![s] = "lookup"]
  /\ UNCHANGED <<storeVars, now, confirmVars, restVars, sdoc, sfresh, saccess, sfault>>

(* getUserByUID returns (null when the lookup throws); not found ends the
   scan; otherwise validateUserAccess is called *)
ScanLookup(s, ok) ==
  /\ spc[s] = "lookup"
  /\ LET userData == IF ok THEN FindActiveByUid(users, suid[s]) ELSE NoUser
     IN IF userData.id = 0
        THEN /\ slog' = [slog EXCEPT ![s] = @ \o
                           << Emit("scanResult", suid[s], FALSE, "User not found",
                                   "This card is not registered in the system", NoData) >>]
             /\ spc' = [spc EXCEPT ![s] = "done"]
             /\ UNCHANGED <<sdoc, saccess>>
        ELSE Validate(s, userData, "unblockSave", "access")
  /\ sfault' = [sfault EXCEPT ![s] = @ \/ ~ok]
  /\ UNCHANGED <<storeVars, now, confirmVars, restVars, readerVars, sraw, sentry, suid, sfresh>>

(* the user.save() of validateUserAccess returns *)
ScanUnblockSave(s, ok) ==
  /\ spc[s] = "unblockSave"
  /\ ValidateSaved(s, ok, "access")
  /\ UNCHANGED <<reservations, purchases, servedWrites, now, confirmVars, restVars, readerVars,
                 sraw, sentry, suid, sdoc, sfresh, slog>>

(* validateUserAccess has returned: access denied ends the scan; otherwise
   getTodayReservations is awaited *)
ScanAccess(s) ==
  /\ spc[s] = "access"
  /\ IF ~saccess[s].canAccess
     THEN /\ slog' = [slog EXCEPT ![s] = @ \o
                        << Emit("scanResult", suid[s], FALSE, "Access denied",
                                saccess[s].message,
                                [uid |-> sdoc[s].uid, status |-> saccess[s].reason]) >>]
          /\ spc' = [spc EXCEPT ![s] = "done"]
     ELSE /\ slog' = [slog EXCEPT ![s] = @ \o << Call("getTodayReservations", NoData) >>]
          /\ spc' = [spc EXCEPT ![s] = "reservations"]
  /\ UNCHANGED <<storeVars, now, confirmVars, restVars, readerVars, sraw, sentry, suid, sdoc, sfresh,
                 saccess, sfault>>

UpdateThenEmit(result) == << Call("updateLastScan", NoData), result >>

(* io.emit('scanResult', ...), then await this.userService.updateLastScan(...) *)
EmitThenUpdate(result) == << result, Call("updateLastScan", NoData) >>

(* getTodayReservations returns ([] when the query throws): the history entry
   is marked, the success result is emitted, updateLastScan awaits findById *)
ScanReservations(s, ok) ==
  /\ spc[s] = "reservations"
  /\ LET list == IF ok THEN TodayReservations(reservations, sdoc[s].id, now) ELSE {}
     IN slog' = [slog EXCEPT ![s] = @ \o
                   EmitThenUpdate(Emit("scanResult", suid[s], TRUE, "", "",
                                       [user |-> Profile(sdoc[s]),
                                        reservations |-> list]))]
  /\ scanHistory' = MarkProcessed(scanHistory, suid[s])
  /\ spc' = [spc EXCEPT ![s] = "findUser"]
  /\ sfault' = [sfault EXCEPT ![s] = @ \/ ~ok]
  /\ UNCHANGED <<storeVars, now, confirmVars, restVars, lastScanTime, nScans, sraw, sentry, suid, sdoc,
                 sfresh, saccess>>

(* updateLastScan: User.findById returns; user.updateLastScan() awaits save() *)
ScanFindUser(s, ok) ==
  /\ spc[s] = "findUser"
  /\ IF ok /\ sdoc[s].id \in DOMAIN users
     THEN /\ sfresh' = [sfresh EXCEPT ![s] = updateLastScan(users[sdoc[s].id])]
          /\ spc' = [spc EXCEPT ![s] = "saveUser"]
     ELSE /\ spc' = [spc EXCEPT ![s] = "done"]
          /\ UNCHANGED sfresh
  /\ sfault' = [sfault EXCEPT ![s] = @ \/ ~ok]
  /\ UNCHANGED <<storeVars, now, confirmVars, restVars, readerVars, sraw, sentry, suid, sdoc, saccess, slog>>

(* updateLastScan: save() returns; processCardScan returns *)
ScanSaveUser(s, ok) ==
  /\ spc[s] = "saveUser"
  /\ IF ok
     THEN users' = [users EXCEPT ![sfresh[s].id] = SaveLastScan(@, sfresh[s])]
     ELSE UNCHANGED users
  /\ spc' = [spc EXCEPT ![s] = "done"]
  /\ sfault' = [sfault EXCEPT ![s] = @ \/ ~ok]
  /\ UNCHANGED <<reservations, purchases, servedWrites, now, confirmVars, restVars, readerVars,
                 sraw, sentry, suid, sdoc, sfresh, saccess, slog>>

(* the caller's await of processCardScan is over: the task is gone *)
ScanReturn(s) ==
  /\ spc[s] \in {"done", "threw", "refused"}
  /\ spc' = [spc EXCEPT ![s] = "idle"]
  /\ sraw' = [sraw EXCEPT ![s] = NoRaw]
  /\ sentry' = [sentry EXCEPT ![s] = ""]
  /\ suid' = [suid EXCEPT ![s] = << >>]
  /\ sdoc' = [sdoc EXCEPT ![s] = NoUser]
  /\ sfresh' = [sfresh EXCEPT ![s] = NoUser]
  /\ saccess' = [saccess EXCEPT ![s] = NoAccess]
  /\ slog' = [slog EXCEPT ![s] = << >>]
  /\ sfault' = [sfault EXCEPT ![s] = FALSE]
  /\ UNCHANGED <<storeVars, now, confirmVars, restVars, readerVars>>

-----------------------------------------------------------------------------
(* UserService.validateUserAccess(user), called on the stored document of any
   person *)

CheckStart(s, id) ==
  /\ spc[s] = "idle"
  /\ Validate(s, users[id], "checkSave", "checked")
  /\ UNCHANGED <<storeVars, now, confirmVars, restVars, readerVars, sraw, sentry, suid, sfresh, sfault>>

CheckSave(s, ok) ==
  /\ spc[s] = "checkSave"
  /\ ValidateSaved(s, ok, "checked")
  /\ UNCHANGED <<reservations, purchases, servedWrites, now, confirmVars, restVars, readerVars,
                 sraw, sentry, suid, sdoc, sfresh, slog>>

(* time passes *)
Tick ==
  /\ now < MaxTime
  /\ now' = now + 1
  /\ UNCHANGED <<storeVars, confirmVars, scanVars, restVars>>

-----------------------------------------------------------------------------
(* ReservationService.updateReservationStatus(reservationId, status) *)

(* the status arguments a caller may pass: the enum and one value outside it *)
StatusArgs == Statuses \cup {"eaten"}

NoArg == [rid |-> 0, status |-> ""]

(* the assignments made to the loaded document before save() *)
SetStatus(doc, status) ==
  IF status = "served"
  THEN [doc EXCEPT !.status = status, !.servedAt = now, !.rfidProcessedAt = now,
                   !.servedByStation = StationId]
  ELSE [doc EXCEPT !.status = status]

(* save() sends the modified paths only *)
SaveStatus(stored, doc) ==
  IF doc.status = "served"
  THEN [stored EXCEPT !.status = doc.status, !.servedAt = doc.servedAt,
                      !.rfidProcessedAt = doc.rfidProcessedAt,
                      !.servedByStation = doc.servedByStation]
  ELSE [stored EXCEPT !.status = doc.status]

(* the call is made: MealReservation.findById is awaited *)
UpdateStart(u, r, status) ==
  /\ upc[u] = "idle"
  /\ \A d \in Updates : d < u => upc[d] # "idle"
  /\ upc' = [upc EXCEPT ![u] = "find"]
  /\ uarg' = [uarg EXCEPT ![u] = [rid |-> r, status |-> status]]
  /\ UNCHANGED <<storeVars, now, confirmVars, scanVars, udoc, qres, buyVars, managerVars>>

(* findById returns; the document is modified and save() is awaited *)
UpdateFind(u, ok) ==
  /\ upc[u] = "find"
  /\ IF ok /\ uarg[u].rid \in DOMAIN reservations
     THEN /\ udoc' = [udoc EXCEPT ![u] = SetStatus(reservations[uarg[u].rid], uarg[u].status)]
          /\ upc' = [upc EXCEPT ![u] = "save"]
     ELSE /\ upc' = [upc EXCEPT ![u] = "threw"]
          /\ UNCHANGED udoc
  /\ UNCHANGED <<storeVars, now, confirmVars, scanVars, uarg, qres, buyVars, managerVars>>

(* save() returns: the schema's enum validates the status, then the write *)
UpdateSave(u, ok) ==
  /\ upc[u] = "save"
  /\ IF ok /\ udoc[u].status \in Statuses
     THEN /\ reservations' = [reservations EXCEPT ![uarg[u].rid] = SaveStatus(@, udoc[u])]
          /\ servedWrites' = [servedWrites EXCEPT ![uarg[u].rid] =
                                IF udoc[u].status = "served" THEN @ + 1 ELSE @]
          /\ upc' = [upc EXCEPT ![u] = "done"]
     ELSE /\ upc' = [upc EXCEPT ![u] = "threw"]
          /\ UNCHANGED <<reservations, servedWrites>>
  /\ UNCHANGED <<users, purchases, now, confirmVars, scanVars, uarg, udoc, qres,
                 buyVars, managerVars>>

-----------------------------------------------------------------------------
(* The read paths of the services: one awaited query inside try/catch *)

Returns(value) == [threw |-> FALSE, value |-> value]
Throws == [threw |-> TRUE, value |-> StorageError]

CaughtRethrows(ok, value, fallback) == IF ok THEN Returns(value) ELSE Throws

(* try { return await query } catch (error) { logger.error(...); return fallback } *)
Caught(ok, value, fallback) == Returns(IF ok THEN value ELSE fallback)

(* UserService.getUserById: User.findById(userId) *)
getUserById(userId, ok) ==
  Caught(ok, IF userId \in DOMAIN users THEN users[userId] ELSE NoUser, NoUser)

(* ReservationService.getReservationById: findById(...).populate(...) *)
getReservationById(reservationId, ok) ==
  Caught(ok,
         IF reservationId \in DOMAIN reservations
         THEN Populate(reservations[reservationId]) ELSE NoDoc,
         NoDoc)

(* PurchaseService.getUserPurchases: Purchase.find({ userId }); the limit of
   10 is more than the purchases a person has here *)
getUserPurchases(userId, ok) ==
  Caught(ok, {p \in purchases : p.userId = userId}, {})

(* PurchaseService.getAvailableFoods: the foods grouped by category; {} when
   the query throws *)
FoodCategory(id) == IF id = 1 THEN "starter" ELSE "main"

getAvailableFoods(ok) ==
  Caught(ok,
         [c \in {FoodCategory(id) : id \in FoodIds} |->
            {id \in FoodIds : FoodCategory(id) = c}],
         << >>)

ReadNames ==
  {"getUserById", "getReservationById", "getUserPurchases", "getAvailableFoods"}

(* what the read path returns when its query throws *)
Fallback(name) ==
  CASE name = "getUserById" -> Returns(NoUser)
    [] name = "getReservationById" -> Returns(NoDoc)
    [] name = "getUserPurchases" -> Returns({})
    [] name = "getAvailableFoods" -> Returns(<< >>)

NoRead == [name |-> "", arg |-> 0, ok |-> TRUE, out |-> Returns(0)]

(* a route calls a read path with an id that exists or not; the query returns
   or throws *)
Query(name, arg, ok) ==
  /\ qres' = [name |-> name, arg |-> arg, ok |-> ok,
              out |-> CASE name = "getUserById" -> getUserById(arg, ok)
                        [] name = "getReservationById" -> getReservationById(arg, ok)
                        [] name = "getUserPurchases" -> getUserPurchases(arg, ok)
                        [] name = "getAvailableFoods" -> getAvailableFoods(ok)]
  /\ UNCHANGED <<storeVars, now, confirmVars, scanVars, upc, uarg, udoc, buyVars,
                 managerVars>>

-----------------------------------------------------------------------------
(* RFIDService: initialize, the reader's events, reconnect, disconnect *)

(* the characters of a name *)
Chars(name) ==
  CASE name = "ACR1252" -> << "A", "C", "R", "1", "2", "5", "2" >>
    [] name = "ACR122U" -> << "A", "C", "R", "1", "2", "2", "U" >>
    [] name = "OMNIKEY" -> << "O", "M", "N", "I", "K", "E", "Y" >>
    [] OTHER -> << >>

UpperLetters == << "A", "C", "E", "F", "I", "K", "M", "N", "O", "R", "U", "Y" >>
LowerLetters == << "a", "c", "e", "f", "i", "k", "m", "n", "o", "r", "u", "y" >>

LowerChar(ch) ==
  IF \E i \in 1..Len(UpperLetters) : UpperLetters[i] = ch
  THEN LowerLetters[CHOOSE i \in 1..Len(UpperLetters) : UpperLetters[i] = ch]
  ELSE ch

toLowerCase(str) == [i \in 1..Len(str) |-> LowerChar(str[i])]

(* String.prototype.includes *)
includes(str, sub) ==
  \E i \in 0..(Len(str) - Len(sub)) : SubSeq(str, i + 1, i + Len(sub)) = sub

(* nfc.on('reader'): the test a detected reader must pass *)
TargetReader(name) ==
  \/ includes(toLowerCase(Chars(name)), << "a", "c", "r" >>)
  \/ includes(toLowerCase(Chars(name)), << "1", "2", "5", "2" >>)
  \/ includes(toLowerCase(Chars(name)), << "n", "f", "c" >>)

(* the last handler of the manager that ran: its argument, the event it
   emitted to all clients, and the status and handle it found; n alternates *)
NoEvent ==
  [by |-> "", arg |-> "", emit |-> "", message |-> "", n |-> 0,
   was |-> [connected |-> FALSE, nfc |-> "null"]]

Handled(by, arg, emit, message) ==
  [by |-> by, arg |-> arg, emit |-> emit, message |-> message, n |-> 1 - mevent.n,
   was |-> [connected |-> connected, nfc |-> nfc]]

(* if (this.readerConfig.autoReconnect) setTimeout(() => this.reconnect(), ...):
   the number of reconnect timers pending *)
ScheduleNever(auto, pending) == pending

Schedule(auto, pending) == IF auto THEN pending + 1 ELSE pending

(* reconnect calls made and reconnect timers pending: the model ends after
   MaxReconnects of them *)
Budget ==
  timers + Cardinality({k \in Reconnects : rpc[k] # "idle"}) < MaxReconnects

(* initializeMockReader: the fields it assigns, and the timer that will emit
   rfidConnected *)
initializeMockReader(m) ==
  [m EXCEPT !.connected = TRUE, !.reader = MockReader, !.announce = @ + 1]

(* the constructor's fields, then initialize() up to its first suspension:
   in mock mode the mock reader is attached; otherwise new NFC() is tried and,
   if it throws, the catch of initialize is pending *)
Constructed(mock, hwOk) ==
  LET fields == [mockMode |-> mock, connected |-> FALSE, reader |-> NoReader,
                 nfc |-> "null", ipc |-> "done", discovered |-> FALSE,
                 announce |-> 0, live |-> 0]
  IN IF mock THEN initializeMockReader(fields)
     ELSE IF hwOk THEN [fields EXCEPT !.nfc = "open", !.discovered = TRUE, !.live = 1]
     ELSE [fields EXCEPT !.ipc = "catch", !.discovered = TRUE]

InitManager(modes, autos, names) ==
  /\ \E mock \in modes, hwOk \in BOOLEAN :
       LET m == Constructed(mock, hwOk)
       IN /\ mockMode = m.mockMode
          /\ connected = m.connected
          /\ reader = m.reader
          /\ nfc = m.nfc
          /\ ipc = m.ipc
          /\ discovered = m.discovered
          /\ announce = m.announce
          /\ live = m.live
  /\ autoReconnect \in autos
  /\ readerName \in names
  /\ rpc = [k \in Reconnects |-> "idle"]
  /\ rover = [k \in Reconnects |-> FALSE]
  /\ fellBack = FALSE
  /\ timers = 0
  /\ mevent = NoEvent
  /\ attached = {}
  /\ released = FALSE

(* the catch of initialize: if (!this.mockMode) await initializeMockReader().
   It runs as soon as the constructor's caller yields, before any event or
   request is handled. *)
InitializeCatch ==
  /\ ipc = "catch"
  /\ LET m == initializeMockReader([connected |-> connected, reader |-> reader,
                                    announce |-> announce])
     IN IF ~mockMode
        THEN /\ connected' = m.connected /\ reader' = m.reader
             /\ announce' = m.announce /\ fellBack' = TRUE
        ELSE UNCHANGED <<connected, reader, announce, fellBack>>
  /\ ipc' = "done"
  /\ UNCHANGED <<storeVars, now, confirmVars, scanVars, updateVars, buyVars,
                 mockMode, nfc, rpc, discovered, autoReconnect, readerName,
                 timers, live, mevent, rover, attached,
                 released>>

(* the timer of initializeMockReader fires: io.emit('rfidConnected',
   {connected: true, mockMode: true}) *)
MockAnnounce ==
  /\ ipc = "done"
  /\ announce > 0
  /\ announce' = announce - 1
  /\ mevent' = Handled("announce", "", "rfidConnected", "")
  /\ UNCHANGED <<storeVars, now, confirmVars, scanVars, updateVars, buyVars,
                 mockMode, connected, reader, nfc, ipc, rpc, discovered, fellBack,
                 autoReconnect, readerName, timers, live, rover, attached,
                 released>>

(* nfc.on('reader'): a reader is detected; a target reader becomes the
   current reader, rfidConnected is emitted and setupCardHandlers installs
   its handlers *)
ReaderDetected(name) ==
  /\ ipc = "done"
  /\ nfc = "open"
  /\ IF TargetReader(name)
     THEN /\ reader' = name
          /\ connected' = TRUE
          /\ mevent' = Handled("reader", name, "rfidConnected", "")
     ELSE /\ mevent' = Handled("reader", name, "", "")
          /\ UNCHANGED <<reader, connected>>
  /\ attached' = IF TargetReader(name) THEN attached \cup {name} ELSE attached
  /\ UNCHANGED <<storeVars, now, confirmVars, scanVars, updateVars, buyVars,
                 mockMode, nfc, ipc, rpc, discovered, fellBack,
                 autoReconnect, readerName, timers, announce, live, rover,
                 released>>

(* the event reader.on('end') emits *)
EndEventError(r) == "rfidError"

EndEvent(r) == "rfidDisconnected"

(* reader.on('end') *)
ReaderEnd ==
  /\ ipc = "done"
  /\ nfc = "open" /\ reader \in ReaderNames
  /\ autoReconnect => Budget
  /\ connected' = FALSE
  /\ reader' = NoReader
  /\ mevent' = Handled("end", "", EndEvent(reader), "")
  /\ timers' = Schedule(autoReconnect, timers)
  /\ attached' = attached \ {reader}
  /\ UNCHANGED <<storeVars, now, confirmVars, scanVars, updateVars, buyVars,
                 mockMode, nfc, ipc, rpc, discovered, fellBack,
                 autoReconnect, readerName, announce, live, rover,
                 released>>

(* reader.on('error') *)
ReaderError ==
  /\ ipc = "done"
  /\ nfc = "open" /\ reader \in ReaderNames
  /\ connected' = FALSE
  /\ mevent' = Handled("readerError", "", "rfidError", "Reader error occurred")
  /\ UNCHANGED <<storeVars, now, confirmVars, scanVars, updateVars, buyVars,
                 mockMode, reader, nfc, ipc, rpc, discovered, fellBack,
                 autoReconnect, readerName, timers, announce, live, rover, attached,
                 released>>

(* nfc.on('error') *)
NfcError ==
  /\ ipc = "done"
  /\ nfc = "open"
  /\ autoReconnect => Budget
  /\ connected' = FALSE
  /\ mevent' = Handled("nfcError", "", "rfidError", "NFC reader error")
  /\ timers' = Schedule(autoReconnect, timers)
  /\ UNCHANGED <<storeVars, now, confirmVars, scanVars, updateVars, buyVars,
                 mockMode, reader, nfc, ipc, rpc, discovered, fellBack,
                 autoReconnect, readerName, announce, live, rover, attached,
                 released>>

(* reconnect(), called by a reconnect timer or by POST /reconnect: close,
   connected = false, reader = null, await delay(2000).  rover records that
   another reconnect call was in its delay when this one began *)
ReconnectStart(k, byTimer) ==
  /\ ipc = "done"
  /\ rpc[k] = "idle"
  /\ \A d \in Reconnects : d < k => rpc[d] # "idle"
  /\ IF byTimer
     THEN timers > 0 /\ timers' = timers - 1
     ELSE Budget /\ UNCHANGED timers
  /\ nfc' = IF nfc = "null" THEN nfc ELSE "closed"
  /\ live' = IF nfc = "open" THEN live - 1 ELSE live
  /\ connected' = FALSE
  /\ reader' = NoReader
  /\ rpc' = [rpc EXCEPT ![k] = "delay"]
  /\ rover' = [rover EXCEPT ![k] = \E d \in Reconnects : rpc[d] = "delay"]
  /\ mevent' = Handled("reconnect", "", "", "")
  /\ attached' = {}
  /\ released' = (released /\ byTimer)
  /\ UNCHANGED <<storeVars, now, confirmVars, scanVars, updateVars, buyVars,
                 mockMode, ipc, discovered, fellBack, autoReconnect, readerName,
                 announce>>

(* the delay is over: the mock reader, or hardware discovery again with a new
   NFC instance; a discovery that throws is caught, and retried by a timer *)
ReconnectResume(k, hwOk) ==
  /\ rpc[k] = "delay"
  /\ IF mockMode
     THEN LET m == initializeMockReader([connected |-> connected, reader |-> reader,
                                         announce |-> announce])
          IN /\ connected' = m.connected /\ reader' = m.reader
             /\ announce' = m.announce
             /\ rpc' = [rpc EXCEPT ![k] = "done"]
             /\ UNCHANGED <<nfc, live, discovered, timers>>
     ELSE IF hwOk
     THEN /\ nfc' = "open"
          /\ live' = live + 1
          /\ discovered' = TRUE
          /\ rpc' = [rpc EXCEPT ![k] = "done"]
          /\ UNCHANGED <<connected, reader, announce, timers>>
     ELSE /\ autoReconnect => Budget
          /\ discovered' = TRUE
          /\ rpc' = [rpc EXCEPT ![k] = "failed"]
          /\ timers' = Schedule(autoReconnect, timers)
          /\ UNCHANGED <<connected, reader, announce, nfc, live>>
  /\ mevent' = Handled("resume", "", "", "")
  /\ UNCHANGED <<storeVars, now, confirmVars, scanVars, updateVars, buyVars,
                 mockMode, ipc, fellBack, autoReconnect, readerName, rover, attached,
                 released>>

(* disconnect(): the fields it assigns *)
disconnectKeepsHandle(m) ==
  [m EXCEPT !.connected = FALSE, !.reader = NoReader]

disconnect(m) ==
  [m EXCEPT !.connected = FALSE, !.reader = NoReader, !.nfc = "null"]

(* disconnect(): the handle is closed if there is one, then the fields and
   rfidDisconnected *)
Disconnect ==
  /\ ipc = "done"
  /\ LET m == disconnect([connected |-> connected, reader |-> reader, nfc |-> nfc])
     IN connected' = m.connected /\ reader' = m.reader /\ nfc' = m.nfc
  /\ live' = IF nfc = "open" THEN live - 1 ELSE live
  /\ mevent' = Handled("disconnect", "", "rfidDisconnected", "")
  /\ attached' = {}
  /\ UNCHANGED <<storeVars, now, confirmVars, scanVars, updateVars, buyVars,
                 mockMode, ipc, rpc, discovered, fellBack, autoReconnect,
                 readerName, timers, announce, rover,
                 released>>

(* reader.on('end') of a reader that is not the current one: a reader
   detected earlier whose handlers are still installed *)
SupersededEnd(name) ==
  /\ ipc = "done"
  /\ nfc = "open" /\ name \in attached /\ name # reader
  /\ autoReconnect => Budget
  /\ connected' = FALSE
  /\ reader' = NoReader
  /\ attached' = attached \ {name}
  /\ mevent' = Handled("supersededEnd", name, EndEvent(name), "")
  /\ timers' = Schedule(autoReconnect, timers)
  /\ UNCHANGED <<storeVars, now, confirmVars, scanVars, updateVars, buyVars,
                 mockMode, nfc, ipc, rpc, discovered, fellBack,
                 autoReconnect, readerName, announce, live, rover,
                 released>>

(* reader.on('error') of a reader that is not the current one *)
SupersededError(name) ==
  /\ ipc = "done"
  /\ nfc = "open" /\ name \in attached /\ name # reader
  /\ connected' = FALSE
  /\ mevent' = Handled("supersededError", name, "rfidError", "Reader error occurred")
  /\ UNCHANGED <<storeVars, now, confirmVars, scanVars, updateVars, buyVars,
                 mockMode, reader, nfc, ipc, rpc, discovered, fellBack,
                 autoReconnect, readerName, timers, announce, live, rover,
                 attached, released,
                 released>>

(* process.on('SIGINT'): rfidService.disconnect(), then the database and the
   server are closed; the process exits once the server has closed *)
Sigint ==
  /\ ipc = "done"
  /\ LET m == disconnect([connected |-> connected, reader |-> reader, nfc |-> nfc])
     IN connected' = m.connected /\ reader' = m.reader /\ nfc' = m.nfc
  /\ live' = IF nfc = "open" THEN live - 1 ELSE live
  /\ attached' = {}
  /\ released' = TRUE
  /\ mevent' = Handled("disconnect", "", "rfidDisconnected", "")
  /\ UNCHANGED <<storeVars, now, confirmVars, scanVars, updateVars, buyVars,
                 mockMode, ipc, rpc, discovered, fellBack, autoReconnect,
                 readerName, timers, announce, rover>>

-----------------------------------------------------------------------------
(* Purchase completion: POST /complete, the completePurchase command, and the
   call confirmReservation makes, all ending in PurchaseService.completePurchase *)

UnknownUserId == 7

Item(food, price, qty, subtotal) ==
  [foodId |-> food, name |-> Food(food).name, price |-> price, quantity |-> qty,
   subtotal |-> subtotal]

(* no item; 2 x 3.50; the same with a subtotal of 3.50; 2 x 3.00 for a food
   priced 3.50 *)
ItemLists ==
  {<< >>, << Item(1, 350, 2, 700) >>, << Item(1, 350, 2, 350) >>,
   << Item(1, 300, 2, 600) >>}

Request(userId, items, total, method, paid) ==
  [userId |-> userId, uid |-> << "A", "1" >>, userCategory |-> "student",
   items |-> items, totalAmount |-> total, paymentMethod |-> method,
   paidAmount |-> paid, notes |-> << >>, cafeteriaStation |-> StationId,
   processedBy |-> "rfid_system"]

Payments ==
  ({"cash"} \X {NULL, 500, 700, 1000})
    \cup {<< "monthly_billing", NULL >>, << "voucher", NULL >>}

Requests ==
  {Request(userId, items, total, pay[1], pay[2]) :
     userId \in {1, UnknownUserId}, items \in ItemLists, total \in {700, 900},
     pay \in Payments}

Entries == {"http", "socket", "reservation"}

(* what each entry point may hand to completePurchase *)
RequestsOf(entry) ==
  IF entry = "reservation"
  THEN {ReservationPurchaseData(markServedByRFID(Populate(reservations[r]), StationId)) :
          r \in ReservationIds}
  ELSE Requests

RECURSIVE calculateTotal(_)
calculateTotal(items) ==
  IF items = << >> THEN 0
  ELSE Head(items).price * Head(items).quantity + calculateTotal(Tail(items))

Abs(x) == IF x < 0 THEN 0 - x ELSE x

(* router.post('/complete'): the checks before validatePurchaseItems *)
RouteRefusal(data) ==
  IF data.userId = NULL \/ Len(data.items) = 0 THEN "Invalid purchase data"
  ELSE IF data.paymentMethod \notin {"cash", "monthly_billing"}
  THEN "Invalid payment method"
  ELSE ""

(* validatePurchaseItems: the message of the error it throws, or "" *)
validatePurchaseItems(items) ==
  IF \E i \in 1..Len(items) : items[i].foodId \notin FoodIds
  THEN "Food item not found"
  ELSE IF \E i \in 1..Len(items) : Abs(items[i].price - Food(items[i].foodId).price) > 1
  THEN "Price mismatch"
  ELSE ""

(* router.post('/complete'): the total and the cash checks *)
TotalRefusal(data) ==
  IF Abs(calculateTotal(data.items) - data.totalAmount) > 1
  THEN "Total amount mismatch" ELSE ""

CashRefusal(data) ==
  IF data.paymentMethod = "cash"
       /\ (~Truthy(data.paidAmount) \/ data.paidAmount < data.totalAmount)
  THEN "Insufficient cash amount" ELSE ""

(* completePurchase before its first await: the error thrown, or "" *)
CompleteRefusal(data) ==
  IF InvalidPurchaseData(data) THEN "Invalid purchase data"
  ELSE IF data.paymentMethod = "cash" /\ data.paidAmount = NULL
  THEN "TypeError: paidAmount.toFixed"
  ELSE ""

(* the change completePurchase reports in its result *)
ResultChange(data) ==
  IF data.paymentMethod = "cash" /\ data.paidAmount > data.totalAmount
  THEN data.paidAmount - data.totalAmount ELSE 0

NoRequest == [userId |-> NULL]
NoBuyResult == [success |-> FALSE, error |-> "", change |-> NULL]
BuyFailure(msg) == [success |-> FALSE, error |-> msg, change |-> NULL]
BuySuccess(data) == [success |-> TRUE, error |-> "", change |-> ResultChange(data)]

(* the Purchase documents of request b are tagged apart from those of the
   confirmReservation calls *)
BuyerTag(b) == MaxCalls + b

BuyFinish(b, result) ==
  /\ bpc' = [bpc EXCEPT ![b] = "done"]
  /\ bres' = [bres EXCEPT ![b] = result]
  /\ bout' = [bout EXCEPT ![b] =
                Answer(bentry'[b], "purchaseCompleted", "purchaseUpdate",
                       "purchaseError", result.success)]

(* completePurchase(data) up to its awaited purchase.save() *)
Complete(b, data) ==
  IF CompleteRefusal(data) # ""
  THEN BuyFinish(b, BuyFailure(CompleteRefusal(data))) /\ UNCHANGED bpurchase
  ELSE /\ bpurchase' = [bpurchase EXCEPT ![b] = NewPurchase(data, BuyerTag(b), 0)]
       /\ bpc' = [bpc EXCEPT ![b] = "save"]
       /\ UNCHANGED <<bres, bout>>

(* a request arrives at an entry point *)
BuyStart(b, entry, data) ==
  /\ bpc[b] = "idle"
  /\ \A d \in Buys : d < b => bpc[d] # "idle"
  /\ bentry' = [bentry EXCEPT ![b] = entry]
  /\ breq' = [breq EXCEPT ![b] = data]
  /\ IF entry = "http"
     THEN IF RouteRefusal(data) # ""
          THEN BuyFinish(b, BuyFailure(RouteRefusal(data))) /\ UNCHANGED bpurchase
          ELSE /\ bpc' = [bpc EXCEPT ![b] = "items"]
               /\ UNCHANGED <<bres, bout, bpurchase>>
     ELSE Complete(b, data)
  /\ UNCHANGED <<storeVars, now, confirmVars, scanVars, updateVars, managerVars>>

(* POST /complete: validatePurchaseItems returns; total and cash checks;
   completePurchase is called *)
BuyItems(b, ok) ==
  /\ bpc[b] = "items"
  /\ UNCHANGED <<bentry, breq>>
  /\ LET data == breq[b]
     IN IF ~ok THEN BuyFinish(b, BuyFailure(StorageError)) /\ UNCHANGED bpurchase
        ELSE IF validatePurchaseItems(data.items) # ""
        THEN BuyFinish(b, BuyFailure(validatePurchaseItems(data.items)))
               /\ UNCHANGED bpurchase
        ELSE IF TotalRefusal(data) # ""
        THEN BuyFinish(b, BuyFailure(TotalRefusal(data))) /\ UNCHANGED bpurchase
        ELSE IF CashRefusal(data) # ""
        THEN BuyFinish(b, BuyFailure(CashRefusal(data))) /\ UNCHANGED bpurchase
        ELSE Complete(b, data)
  /\ UNCHANGED <<storeVars, now, confirmVars, scanVars, updateVars, managerVars>>

(* purchase.save() returns; User.findByIdAndUpdate is awaited *)
BuySave(b, ok) ==
  /\ bpc[b] = "save"
  /\ UNCHANGED <<bentry, breq>>
  /\ IF ~PurchaseValid(bpurchase[b])
     THEN BuyFinish(b, BuyFailure("validation failed")) /\ UNCHANGED purchases
     ELSE IF ~ok
     THEN BuyFinish(b, BuyFailure(StorageError)) /\ UNCHANGED purchases
     ELSE /\ purchases' = purchases \cup {bpurchase[b]}
          /\ bpc' = [bpc EXCEPT ![b] = "userUpdate"]
          /\ UNCHANGED <<bres, bout>>
  /\ UNCHANGED <<users, reservations, servedWrites, now, confirmVars, scanVars,
                 updateVars, managerVars, bpurchase>>

(* findByIdAndUpdate returns (null for an id nobody has); the result *)
BuyUserUpdate(b, ok) ==
  /\ bpc[b] = "userUpdate"
  /\ UNCHANGED <<bentry, breq>>
  /\ IF ~ok
     THEN BuyFinish(b, BuyFailure(StorageError)) /\ UNCHANGED users
     ELSE /\ users' = BumpScan(users, breq[b].userId)
          /\ BuyFinish(b, BuySuccess(breq[b]))
  /\ UNCHANGED <<reservations, purchases, servedWrites, now, confirmVars, scanVars,
                 updateVars, managerVars, bpurchase>>

-----------------------------------------------------------------------------
(* Initial states *)

BlockedUser(u, expiresAt) ==
  [u EXCEPT !.isBlocked = TRUE,
            !.blockInfo = [reason |-> "unpaid fees", notes |-> "see office",
                           blockedAt |-> 1, blockedBy |-> 7, expiresAt |-> expiresAt,
                           autoUnblockProcessed |-> FALSE]]

(* person 1: active or not, not blocked or blocked with or without an expiry *)
UserConfigs ==
  {[NewUser(1) EXCEPT !.isActive = a] : a \in BOOLEAN}
  \cup {BlockedUser([NewUser(1) EXCEPT !.isActive = a], e) :
          a \in BOOLEAN, e \in {NULL} \cup Times}

(* a pending lunch reservation of person 1 for today: 3.50 x 2, no actual cost *)
ScenarioReservation == NewReservation(1, 1, 2, "pending", 350, NULL, 2)

ReservationConfigs ==
  {NewReservation(student, student, qty, status, 350, act, 2) :
     student \in UserIds, qty \in {1, 2}, status \in Statuses, act \in {NULL, 0, 200}}

InitBase(userConfigs, reservationConfigs) ==
  /\ \E u \in userConfigs : users = [id \in UserIds |-> IF id = 1 THEN u ELSE NewUser(id)]
  /\ \E res \in reservationConfigs : reservations = [r \in ReservationIds |-> res]
  /\ purchases = {}
  /\ servedWrites = [r \in ReservationIds |-> 0]
  /\ now = 2
  /\ cpc = [c \in Calls |-> "idle"]
  /\ crid = [c \in Calls |-> 0]
  /\ cdoc = [c \in Calls |-> NoDoc]
  /\ cpurchase = [c \in Calls |-> NoPurchase]
  /\ cres = [c \in Calls |-> NoResult]
  /\ cfault = [c \in Calls |-> FALSE]
  /\ cprior = [c \in Calls |-> FALSE]
  /\ centry = [c \in Calls |-> ""]
  /\ cout = [c \in Calls |-> << >>]
  /\ scanHistory = << >>
  /\ lastScanTime = NULL
  /\ nScans = 0
  /\ spc = [s \in Scans |-> "idle"]
  /\ sraw = [s \in Scans |-> NoRaw]
  /\ sentry = [s \in Scans |-> ""]
  /\ suid = [s \in Scans |-> << >>]
  /\ sdoc = [s \in Scans |-> NoUser]
  /\ sfresh = [s \in Scans |-> NoUser]
  /\ saccess = [s \in Scans |-> NoAccess]
  /\ slog = [s \in Scans |-> << >>]
  /\ sfault = [s \in Scans |-> FALSE]
  /\ upc = [u \in Updates |-> "idle"]
  /\ uarg = [u \in Updates |-> NoArg]
  /\ udoc = [u \in Updates |-> NoDoc]
  /\ qres = NoRead
  /\ bpc = [b \in Buys |-> "idle"]
  /\ bentry = [b \in Buys |-> ""]
  /\ breq = [b \in Buys |-> NoRequest]
  /\ bpurchase = [b \in Buys |-> NoPurchase]
  /\ bres = [b \in Buys |-> NoBuyResult]
  /\ bout = [b \in Buys |-> << >>]

(* the station runs with the mock reader unless a specification says otherwise *)
InitWith(userConfigs, reservationConfigs) ==
  InitBase(userConfigs, reservationConfigs) /\ InitManager({TRUE}, {FALSE}, {"ACR1252"})

Init == InitWith({NewUser(1)}, {ScenarioReservation})

(* confirmReservation calls, any interleaving, on any reservation *)
NextConfirm ==
  \/ \E c \in Calls, r \in ReservationIds \cup {MissingReservationId} :
       ConfirmStart(c, "socket", r)
  \/ \E c \in Calls, ok \in BOOLEAN : ConfirmFind(c, ok)
  \/ \E c \in Calls, ok \in BOOLEAN : ConfirmMarkSave(c, ok)
  \/ \E c \in Calls, ok \in BOOLEAN : ConfirmPurchaseSave(c, ok)
  \/ \E c \in Calls, ok \in BOOLEAN : ConfirmUserUpdate(c, ok)

ConfirmSpec == InitWith({NewUser(1)}, ReservationConfigs) /\ [][NextConfirm]_vars

(* scans, any interleaving, of any card; the tasks are numbered in the order
   they start *)
InOrder(s) == \A d \in Scans : d < s => spc[d] # "idle"

NextScan ==
  \/ \E s \in Scans, raw \in RawUids : InOrder(s) /\ ScanStart(s, "socket", raw)
  \/ \E s \in Scans, ok \in BOOLEAN : ScanLookup(s, ok)
  \/ \E s \in Scans, ok \in BOOLEAN : ScanUnblockSave(s, ok)
  \/ \E s \in Scans : ScanAccess(s)
  \/ \E s \in Scans, ok \in BOOLEAN : ScanReservations(s, ok)
  \/ \E s \in Scans, ok \in BOOLEAN : ScanFindUser(s, ok)
  \/ \E s \in Scans, ok \in BOOLEAN : ScanSaveUser(s, ok)

ScanSpec == InitWith(UserConfigs, {ScenarioReservation}) /\ [][NextScan]_vars

(* validateUserAccess on any person, while time passes *)
NextAccess ==
  \/ \E s \in Scans, id \in UserIds : InOrder(s) /\ CheckStart(s, id)
  \/ \E s \in Scans, ok \in BOOLEAN : CheckSave(s, ok)
  \/ Tick

AccessSpec == InitWith(UserConfigs, {ScenarioReservation}) /\ [][NextAccess]_vars

(* more scans than the history holds: scans of a card nobody owns, the tasks
   overlapping *)
NextHist ==
  \/ \E s \in Scans : nScans < HistMaxScans /\ ScanStart(s, "socket", UnknownCard)
  \/ \E s \in Scans, ok \in BOOLEAN : ScanLookup(s, ok)
  \/ \E s \in Scans : ScanReturn(s)

HistSpec == Init /\ [][NextHist]_vars

(* the reservation workflow: confirmReservation and updateReservationStatus
   calls, any interleaving *)
WorkflowConfigs ==
  {NewReservation(1, 1, 2, status, 350, NULL, 2) : status \in Statuses}

NextUpdate ==
  \/ \E u \in Updates, r \in ReservationIds \cup {MissingReservationId},
         status \in StatusArgs : UpdateStart(u, r, status)
  \/ \E u \in Updates, ok \in BOOLEAN : UpdateFind(u, ok)
  \/ \E u \in Updates, ok \in BOOLEAN : UpdateSave(u, ok)

NextWorkflow == NextConfirm \/ NextUpdate

WorkflowSpec == InitWith({NewUser(1)}, WorkflowConfigs) /\ [][NextWorkflow]_vars

(* purchase requests at every entry point of completePurchase *)
NextBuy ==
  \/ \E b \in Buys, entry \in Entries :
       \E data \in RequestsOf(entry) : BuyStart(b, entry, data)
  \/ \E b \in Buys, ok \in BOOLEAN : BuyItems(b, ok)
  \/ \E b \in Buys, ok \in BOOLEAN : BuySave(b, ok)
  \/ \E b \in Buys, ok \in BOOLEAN : BuyUserUpdate(b, ok)

BuySpec == Init /\ [][NextBuy]_vars

(* the reader manager in mock or hardware mode *)
NextManager ==
  \/ InitializeCatch
  \/ MockAnnounce
  \/ \E name \in ReaderNames : ReaderDetected(name)
  \/ ReaderEnd
  \/ ReaderError
  \/ NfcError
  \/ \E k \in Reconnects, byTimer \in BOOLEAN : ReconnectStart(k, byTimer)
  \/ \E k \in Reconnects, hwOk \in BOOLEAN : ReconnectResume(k, hwOk)
  \/ Disconnect

ManagerInit ==
  InitBase({NewUser(1)}, {ScenarioReservation})
    /\ InitManager(BOOLEAN, BOOLEAN, {"ACR1252"})

ManagerSpec == ManagerInit /\ [][NextManager]_vars

(* the same, where every pending timer fires, every delay ends and the catch
   of initialize runs *)
ManagerFairness ==
  /\ WF_vars(InitializeCatch)
  /\ WF_vars(MockAnnounce)
  /\ WF_vars(\E k \in Reconnects : ReconnectStart(k, TRUE))
  /\ WF_vars(\E k \in Reconnects, hwOk \in BOOLEAN : ReconnectResume(k, hwOk))

ManagerFairSpec == ManagerInit /\ [][NextManager]_vars /\ ManagerFairness

(* hardware discovery under each configured reader name *)
DiscoveryInit ==
  InitBase({NewUser(1)}, {ScenarioReservation})
    /\ InitManager({FALSE}, {FALSE}, ConfiguredNames)

DiscoverySpec == DiscoveryInit /\ [][NextManager]_vars

(* scans arriving at every entry point, with the mock reader or with
   hardware; the reader is detected before a card can be read *)
NextEntry ==
  \/ InitializeCatch
  \/ ReaderDetected(HardwareReader)
  \/ \E s \in EntryScans, entry \in ScanEntries, raw \in RawUids :
       InOrder(s) /\ ScanStart(s, entry, raw)
  \/ \E s \in Scans, ok \in BOOLEAN : ScanLookup(s, ok)
  \/ \E s \in Scans, ok \in BOOLEAN : ScanUnblockSave(s, ok)
  \/ \E s \in Scans : ScanAccess(s)
  \/ \E s \in Scans, ok \in BOOLEAN : ScanReservations(s, ok)
  \/ \E s \in Scans, ok \in BOOLEAN : ScanFindUser(s, ok)
  \/ \E s \in Scans, ok \in BOOLEAN : ScanSaveUser(s, ok)

EntryInit ==
  InitBase(UserConfigs, {ScenarioReservation})
    /\ InitManager(BOOLEAN, {FALSE}, {"ACR1252"})

EntrySpec == EntryInit /\ [][NextEntry]_vars

(* the same, where every awaited storage call returns or fails *)
EntryFairness ==
  /\ WF_vars(\E s \in Scans, ok \in BOOLEAN : ScanLookup(s, ok))
  /\ WF_vars(\E s \in Scans, ok \in BOOLEAN : ScanUnblockSave(s, ok))
  /\ WF_vars(\E s \in Scans : ScanAccess(s))
  /\ WF_vars(\E s \in Scans, ok \in BOOLEAN : ScanReservations(s, ok))
  /\ WF_vars(\E s \in Scans, ok \in BOOLEAN : ScanFindUser(s, ok))
  /\ WF_vars(\E s \in Scans, ok \in BOOLEAN : ScanSaveUser(s, ok))

EntryFairSpec == EntryInit /\ [][NextEntry]_vars /\ EntryFairness

(* purchase completions and reservation confirmations requested over HTTP
   and over the socket *)
AnswerEntries == {"http", "socket"}

NextAnswer ==
  \/ \E entry \in AnswerEntries, r \in ReservationIds : ConfirmStart(1, entry, r)
  \/ \E c \in Calls, ok \in BOOLEAN : ConfirmFind(c, ok)
  \/ \E c \in Calls, ok \in BOOLEAN : ConfirmMarkSave(c, ok)
  \/ \E c \in Calls, ok \in BOOLEAN : ConfirmPurchaseSave(c, ok)
  \/ \E c \in Calls, ok \in BOOLEAN : ConfirmUserUpdate(c, ok)
  \/ \E b \in Buys, entry \in AnswerEntries :
       \E data \in RequestsOf(entry) : BuyStart(b, entry, data)
  \/ \E b \in Buys, ok \in BOOLEAN : BuyItems(b, ok)
  \/ \E b \in Buys, ok \in BOOLEAN : BuySave(b, ok)
  \/ \E b \in Buys, ok \in BOOLEAN : BuyUserUpdate(b, ok)

AnswerSpec == Init /\ [][NextAnswer]_vars

(* a scan of any card, while routes call the read paths of the services;
   every query may fail *)
QueryArgs == {1, 2, MissingReservationId}

NextRead ==
  \/ \E raw \in RawUids : ScanStart(1, "socket", raw)
  \/ \E s \in Scans, ok \in BOOLEAN : ScanLookup(s, ok)
  \/ \E s \in Scans, ok \in BOOLEAN : ScanUnblockSave(s, ok)
  \/ \E s \in Scans : ScanAccess(s)
  \/ \E s \in Scans, ok \in BOOLEAN : ScanReservations(s, ok)
  \/ \E s \in Scans, ok \in BOOLEAN : ScanFindUser(s, ok)
  \/ \E s \in Scans, ok \in BOOLEAN : ScanSaveUser(s, ok)
  \/ \E name \in ReadNames, arg \in QueryArgs, ok \in BOOLEAN : Query(name, arg, ok)

ReadSpec == InitWith(UserConfigs, {ScenarioReservation}) /\ [][NextRead]_vars

(* a scan of the card of either person before, while or after the
   reservation, of either person, for today or tomorrow, is confirmed or
   cancelled *)
ListConfigs ==
  {NewReservation(student, 1, 1, status, 350, NULL, date) :
     student \in UserIds, status \in Statuses, date \in {2, DayLength + 2}}

ListCards == {RawString(<< "a", "1" >>), RawString(<< "b", "2" >>)}

NextList ==
  \/ \E raw \in ListCards : ScanStart(1, "socket", raw)
  \/ \E s \in Scans, ok \in BOOLEAN : ScanLookup(s, ok)
  \/ \E s \in Scans : ScanAccess(s)
  \/ \E s \in Scans, ok \in BOOLEAN : ScanReservations(s, ok)
  \/ \E s \in Scans, ok \in BOOLEAN : ScanFindUser(s, ok)
  \/ \E s \in Scans, ok \in BOOLEAN : ScanSaveUser(s, ok)
  \/ \E r \in ReservationIds : ConfirmStart(1, "socket", r)
  \/ \E c \in Calls, ok \in BOOLEAN : ConfirmFind(c, ok)
  \/ \E c \in Calls, ok \in BOOLEAN : ConfirmMarkSave(c, ok)
  \/ \E c \in Calls, ok \in BOOLEAN : ConfirmPurchaseSave(c, ok)
  \/ \E c \in Calls, ok \in BOOLEAN : ConfirmUserUpdate(c, ok)
  \/ \E r \in ReservationIds : UpdateStart(1, r, "cancelled")
  \/ \E u \in Updates, ok \in BOOLEAN : UpdateFind(u, ok)
  \/ \E u \in Updates, ok \in BOOLEAN : UpdateSave(u, ok)

ListSpec == InitWith({NewUser(1)}, ListConfigs) /\ [][NextList]_vars

(* hardware with more than one reader plugged in: the events of every reader
   whose handlers are installed *)
NextHandlers ==
  \/ NextManager
  \/ \E name \in ReaderNames : SupersededEnd(name)
  \/ \E name \in ReaderNames : SupersededError(name)

HandlerInit ==
  InitBase({NewUser(1)}, {ScenarioReservation})
    /\ InitManager({FALSE}, BOOLEAN, {"ACR1252"})

HandlerSpec == HandlerInit /\ [][NextHandlers]_vars

(* the station left to itself: events of the reader and reconnect timers, no
   caller of reconnect(); the shutdown at any time *)
NextShutdown ==
  \/ InitializeCatch
  \/ MockAnnounce
  \/ \E name \in ReaderNames : ReaderDetected(name)
  \/ ReaderEnd
  \/ ReaderError
  \/ NfcError
  \/ \E k \in Reconnects : ReconnectStart(k, TRUE)
  \/ \E k \in Reconnects, hwOk \in BOOLEAN : ReconnectResume(k, hwOk)
  \/ Sigint

ShutdownInit ==
  InitBase({NewUser(1)}, {ScenarioReservation})
    /\ InitManager({FALSE}, {TRUE}, {"ACR1252"})

ShutdownSpec == ShutdownInit /\ [][NextShutdown]_vars

Next ==
  NextHandlers \/ NextShutdown \/ NextConfirm \/ NextList \/ NextScan \/ NextAccess \/ NextUpdate \/ NextBuy \/ NextManager
    \/ NextEntry \/ NextAnswer \/ NextRead

Spec == Init /\ [][Next]_vars

-----------------------------------------------------------------------------
(* Properties of confirmReservation *)

PurchasesBy(c) == {p \in purchases : p.by = c}
PurchasesFor(r) == {p \in purchases : p.rid = r}
Returned(c) == cpc[c] = "done"

(* C1: confirming the same reservation id twice in sequence: the call that
   succeeds leaves the reservation served and has created exactly one Purchase;
   a call that begins after it fails with the already-served error and
   creates no Purchase. *)
C1_ConfirmTwice ==
  \A c \in Calls :
    /\ (Returned(c) /\ cres[c].success) =>
          /\ reservations[crid[c]].status = "served"
          /\ Cardinality(PurchasesBy(c)) = 1
          /\ \A p \in PurchasesBy(c) : p.rid = crid[c]
    /\ (Returned(c) /\ cprior[c] /\ ~cfault[c]) =>
          /\ cres[c] = Failure(ErrAlreadyServed)
          /\ PurchasesBy(c) = {}
          /\ reservations[crid[c]].status = "served"

C1_Witness ==
  \E c, d \in Calls :
    /\ c # d /\ crid[c] = crid[d]
    /\ Returned(c) /\ cres[c].success
    /\ Returned(d) /\ cprior[d] /\ cres[d] = Failure(ErrAlreadyServed)
    /\ Cardinality(PurchasesFor(crid[c])) = 1

(* C2: under any interleaving of confirmReservation calls for one reservation
   id, the reservation is written served at most once and at most one
   Purchase is created for it. *)
C2_AtMostOnceServed ==
  \A r \in ReservationIds :
    servedWrites[r] <= 1 /\ Cardinality(PurchasesFor(r)) <= 1

(* C9: the Purchase of a successful confirmReservation references the
   reservation's person and food, has one line item with its quantity and a
   unit price equal to the actual cost whenever one is recorded (0 included)
   and to the estimated cost otherwise, totalAmount = unit price x quantity,
   and paymentStatus pending. *)
RecordedCost(res) ==
  IF res.actualCost # NULL THEN res.actualCost ELSE res.estimatedCost

C9_PurchaseOfReservation ==
  \A c \in Calls : (Returned(c) /\ cres[c].success) =>
    \A p \in PurchasesBy(c) :
      LET res == reservations[crid[c]]
      IN /\ p.userId = res.studentId
         /\ Len(p.items) = 1
         /\ p.items[1].foodId = res.foodId
         /\ p.items[1].quantity = res.quantity
         /\ p.items[1].price = RecordedCost(res)
         /\ p.totalAmount = RecordedCost(res) * res.quantity
         /\ p.paymentStatus = "pending"

(* C10: when purchase creation fails after the reservation was marked served,
   the call fails with the served-but-no-purchase-record error, the
   reservation stays served and no Purchase exists for it. *)
C10_ServedButUnbilled ==
  \A c \in Calls :
    (Returned(c) /\ ~cres[c].success /\ cres[c].error # << >>
       /\ Head(cres[c].error) = ServedButUnbilled) =>
      /\ reservations[crid[c]].status = "served"
      /\ PurchasesFor(crid[c]) = {}

-----------------------------------------------------------------------------
(* Properties of processCardScan *)

Emitted(s, name) ==
  {i \in 1..Len(slog[s]) : slog[s][i].kind = "emit" /\ slog[s][i].name = name}
Called(s, name) ==
  {i \in 1..Len(slog[s]) : slog[s][i].kind = "call" /\ slog[s][i].name = name}
Results(s) == Emitted(s, "scanResult")
SuccessResults(s) == {i \in Results(s) : slog[s][i].success}
Scanning(s) == spc[s] \notin {"idle", "threw"}
Owners(uid) == {id \in DOMAIN users : users[id].uid = uid}
LastOf(s) == slog[s][Len(slog[s])]

(* C3: in every scan, cardScanned is broadcast before any scanResult of the
   scan, and the scan broadcasts at most one scanResult. *)
C3_InProgressThenOneResult ==
  \A s \in Scans :
    /\ Cardinality(Results(s)) <= 1
    /\ \A i \in Results(s) : \E j \in Emitted(s, "cardScanned") : j < i

C3_Witness ==
  \E s, t \in Scans :
    /\ spc[s] = "done" /\ SuccessResults(s) # {}
    /\ spc[t] = "done" /\ Results(t) # {} /\ SuccessResults(t) = {}

(* C4: a scan whose uid resolves to no person ends with the User not found
   result; it makes no access check, no reservation lookup, no scan-counter
   update and broadcasts no success. *)
C4_UnknownCardStops ==
  \A s \in Scans : (Scanning(s) /\ Owners(suid[s]) = {}) =>
    /\ Called(s, "validateUserAccess") = {}
    /\ Called(s, "getTodayReservations") = {}
    /\ Called(s, "updateLastScan") = {}
    /\ SuccessResults(s) = {}
    /\ spc[s] \in {"lookup", "done"}
    /\ spc[s] = "done" =>
         /\ LastOf(s).kind = "emit" /\ LastOf(s).name = "scanResult"
         /\ LastOf(s).error = "User not found"

C4_Witness ==
  \E s, t \in Scans :
    /\ spc[s] = "done" /\ Owners(suid[s]) = {} /\ LastOf(s).error = "User not found"
    /\ spc[t] = "done" /\ Owners(suid[t]) = {} /\ sfault[t]

(* C5: a scan of the card of a person who is ineligible (inactive, or blocked
   without expiry, or blocked with an expiry still in the future) ends with an
   Access denied result that carries a reason; it makes no reservation lookup,
   no scan-counter update and broadcasts no success. *)
Ineligible(u, t) ==
  \/ ~u.isActive
  \/ u.isBlocked /\ (u.blockInfo.expiresAt = NULL \/ t < u.blockInfo.expiresAt)

C5_IneligibleDenied ==
  \A s \in Scans :
    (spc[s] = "done" /\ ~sfault[s]
       /\ \E id \in Owners(suid[s]) : Ineligible(users[id], now)) =>
      /\ LastOf(s).kind = "emit" /\ LastOf(s).name = "scanResult"
      /\ LastOf(s).error = "Access denied"
      /\ LastOf(s).message # ""
      /\ Called(s, "getTodayReservations") = {}
      /\ Called(s, "updateLastScan") = {}
      /\ SuccessResults(s) = {}

(* C6: the scan history never holds more than 100 entries, and what it holds
   are the most recent scans, newest first: an evicted entry is the oldest. *)
C6_HistoryKeepsNewest ==
  /\ Len(scanHistory) <= HistoryLimit
  /\ Len(scanHistory) = IF nScans < HistoryLimit THEN nScans ELSE HistoryLimit
  /\ \A i \in 1..Len(scanHistory) : scanHistory[i].seq = nScans - i + 1

C6_Witness ==
  /\ nScans > HistoryLimit + 1
  /\ Len(scanHistory) = HistoryLimit
  /\ \E s, t \in Scans : s # t /\ spc[s] = "lookup" /\ spc[t] = "lookup"

-----------------------------------------------------------------------------
(* Properties of validateUserAccess *)

Checked(s) == spc[s] = "checked"
Input(s) == slog[s][CHOOSE i \in Called(s, "validateUserAccess") : TRUE].data

(* C7: a blocked person whose expiry is in the past is granted access, and
   after the check the stored record has isBlocked = false and every block
   field reset; a later check of the person grants access without a write. *)
C7_ExpiredBlockCleared ==
  \A s \in Scans : (Checked(s) /\ ~sfault[s] /\ Input(s).isActive) =>
    /\ (Input(s).isBlocked /\ Input(s).expiresAt # NULL
          /\ Input(s).expiresAt < Input(s).at) =>
         /\ saccess[s].canAccess
         /\ ~users[Input(s).id].isBlocked
         /\ users[Input(s).id].blockInfo = DefaultBlockInfo
    /\ ~Input(s).isBlocked =>
         /\ saccess[s].canAccess
         /\ Called(s, "user.save") = {}

C7_Witness ==
  \E s, t \in Scans :
    /\ Checked(s) /\ Checked(t) /\ Input(s).id = Input(t).id
    /\ Input(s).isBlocked /\ Called(s, "user.save") # {} /\ saccess[s].canAccess
    /\ ~Input(t).isBlocked /\ Called(t, "user.save") = {} /\ saccess[t].canAccess

(* C8 as stated: access is denied exactly when the person is inactive, or
   blocked with no expiry, or blocked and the time is before the expiry. *)
C8_DeniedExactlyWhenStated ==
  \A s \in Scans : (Checked(s) /\ ~sfault[s]) =>
    (~saccess[s].canAccess <=>
       \/ ~Input(s).isActive
       \/ Input(s).isBlocked
            /\ (Input(s).expiresAt = NULL \/ Input(s).at < Input(s).expiresAt))

(* C8 amended: access is denied exactly when the person is inactive, or
   blocked with no expiry, or blocked and the time is not after the expiry, or
   the write that clears an expired block fails. *)
C8_DeniedExactlyWhen ==
  \A s \in Scans : Checked(s) =>
    (~saccess[s].canAccess <=>
       \/ ~Input(s).isActive
       \/ Input(s).isBlocked
            /\ (Input(s).expiresAt = NULL \/ Input(s).at <= Input(s).expiresAt)
       \/ sfault[s])

C8_Witness ==
  \E s, t \in Scans :
    /\ Checked(s) /\ Input(s).isActive /\ Input(s).isBlocked
    /\ Input(s).at = Input(s).expiresAt /\ ~saccess[s].canAccess
    /\ Checked(t) /\ Input(t).isActive /\ Input(t).isBlocked
    /\ Input(t).expiresAt # NULL /\ Input(t).at > Input(t).expiresAt
    /\ saccess[t].canAccess

-----------------------------------------------------------------------------
(* Properties of the reservation workflow *)

Refused(status) == status \in {"served", "cancelled"}

(* C11: a confirmReservation call that finds no reservation, or finds it served
   or cancelled, ends at once with an error; that step changes no reservation,
   creates no Purchase and changes no person, and the call does nothing after. *)
C11_RefusedConfirmChangesNothing ==
  [][\A c \in Calls :
       (cpc[c] = "find" /\ cpc'[c] # "find"
          /\ (crid[c] \notin DOMAIN reservations
                \/ Refused(reservations[crid[c]].status))) =>
         /\ cpc'[c] = "done"
         /\ ~cres'[c].success /\ cres'[c].error # << >>
         /\ reservations' = reservations
         /\ purchases' = purchases
         /\ users' = users]_vars

C11_Witness ==
  \E c, d \in Calls :
    /\ Returned(c) /\ cres[c] = Failure(ErrNotFound) /\ PurchasesBy(c) = {}
    /\ Returned(d) /\ cres[d] = Failure(ErrCancelled) /\ PurchasesBy(d) = {}
    /\ reservations[crid[d]].status = "cancelled"
    /\ reservations[crid[d]].servedAt = NULL

(* C12: a reservation whose status is served or cancelled keeps that status in
   every later state. *)
C12_TerminalStatuses ==
  [][\A r \in ReservationIds :
       Refused(reservations[r].status) =>
         reservations'[r].status = reservations[r].status]_vars

-----------------------------------------------------------------------------
(* Properties of the reader manager *)

(* C19: the fallback of initialize leaves the manager in mock mode: connected,
   the mock reader attached, and the mock-mode flag set. *)
C19_FallbackIsMockMode ==
  [][(ipc = "catch" /\ ipc' = "done") =>
       (connected' /\ reader' = MockReader /\ mockMode')]_vars

(* C20: in mock mode the manager is connected in every state and has never run
   hardware discovery. *)
C20_MockAlwaysConnected ==
  mockMode => (connected /\ ~discovered)

(* the step is a run of the manager's handler by *)
Handles(by) == mevent'.n # mevent.n /\ mevent'.by = by

Disconnected == ~connected /\ reader = NoReader /\ nfc = "null"

(* C21: whenever a reader error, an NFC error or the end of the reader is
   handled, the status becomes disconnected and, with auto-reconnect enabled,
   a reconnect attempt is scheduled; for each of the three kinds of event. *)
C21_DisconnectionSchedulesReconnect ==
  [][\A by \in {"readerError", "nfcError", "end"} :
       Handles(by) => (~connected' /\ (autoReconnect => timers' = timers + 1))]_vars

(* C22: a reconnect call that begins while another is in flight runs no
   initialization, and there is never more than one live NFC instance. *)
C22_OverlappingReconnectCoalesces ==
  /\ live <= 1
  /\ \A k \in Reconnects : rover[k] => rpc[k] \notin {"done", "failed"}

(* C23: with auto-reconnect enabled, a reconnect attempt that fails schedules
   another attempt: the failure never leaves the manager without a retry
   pending, and every pending retry is eventually attempted. *)
C23_FailedReconnectRetries ==
  /\ [][\A k \in Reconnects :
          (autoReconnect /\ rpc[k] = "delay" /\ rpc'[k] = "failed")
            => timers' = timers + 1]_vars
  /\ [](\A k \in Reconnects :
          (autoReconnect /\ rpc[k] = "failed"
             /\ \A j \in Reconnects : j > k => rpc[j] = "idle") => timers > 0)
  /\ []<>(timers = 0)

C23_Witness ==
  /\ autoReconnect
  /\ \E k \in Reconnects :
       /\ rpc[k] = "failed"
       /\ \E j \in Reconnects : j > k /\ rpc[j] = "done" /\ connected

(* C24: disconnect() closes the NFC handle, clears the reader and the NFC
   reference and sets the status disconnected; called when already
   disconnected it leaves the manager disconnected, nothing else changed. *)
C24_DisconnectReleases ==
  [][Handles("disconnect") =>
       /\ Disconnected'
       /\ live' = IF nfc = "open" THEN live - 1 ELSE live
       /\ mevent'.emit = "rfidDisconnected"
       /\ Disconnected => UNCHANGED <<live, rpc, timers, announce, mockMode>>]_vars

C24_Witness ==
  /\ mevent.by = "disconnect"
  /\ ~mevent.was.connected /\ mevent.was.nfc = "null"
  /\ Disconnected
  /\ discovered /\ ~fellBack

(* C25: when the reader ends with auto-reconnect enabled, rfidDisconnected is
   broadcast and a reconnect is scheduled; every scheduled reconnect is
   eventually attempted and finishes its delay; when a reader is accepted
   after it, rfidConnected is broadcast with the status connected, and the
   mock reader's rfidConnected is eventually broadcast. *)
C25_EndThenReconnectThenConnected ==
  /\ [][(autoReconnect /\ Handles("end")) =>
          /\ mevent'.emit = "rfidDisconnected"
          /\ ~connected'
          /\ timers' = timers + 1]_vars
  /\ []<>(timers = 0 /\ \A k \in Reconnects : rpc[k] # "delay")
  /\ [][(~mockMode /\ ipc = "done" /\ ~connected /\ connected') =>
          (mevent'.n # mevent.n /\ mevent'.emit = "rfidConnected")]_vars
  /\ []<>(announce = 0)

C25_Witness ==
  /\ autoReconnect /\ ~mockMode
  /\ \E k \in Reconnects : rpc[k] = "done"
  /\ timers = 0
  /\ mevent.by = "reader" /\ mevent.emit = "rfidConnected"
  /\ connected /\ ~mevent.was.connected

(* C29: a detected reader is accepted (current reader, status connected,
   rfidConnected) if and only if its name contains the configured reader name,
   letter case ignored; any other reader changes nothing. *)
C29_AcceptedIffConfiguredName ==
  [][\A name \in ReaderNames :
       (Handles("reader") /\ mevent'.arg = name) =>
         IF includes(toLowerCase(Chars(name)), toLowerCase(Chars(readerName)))
         THEN reader' = name /\ connected' /\ mevent'.emit = "rfidConnected"
         ELSE UNCHANGED <<connected, reader, nfc, timers, announce, live, rpc>>]_vars

-----------------------------------------------------------------------------
(* Properties of the entry points of a scan *)

Invoked(s) == spc[s] \notin {"idle", "refused"}
Finished(s) == spc[s] \in {"done", "threw"}
Terminal(s) == Emitted(s, "scanResult") \cup Emitted(s, "scanError")

(* the upper-case hexadecimal form of a raw identifier *)
Normalized(raw) ==
  toUpperCase(IF raw.kind = "buffer" THEN ToHex(raw.data) ELSE raw.data)

(* C26: while the manager is not in mock mode, a manual scan arriving by
   POST /manual-scan (simulateScan) or by the manualScan message causes no
   cardScanned and no scanResult, and adds no entry to the scan history. *)
C26_ManualScanOnlyInMockMode ==
  ~mockMode =>
    /\ \A s \in Scans :
         sentry[s] \in {"http", "socket"} =>
           Emitted(s, "cardScanned") = {} /\ Emitted(s, "scanResult") = {}
    /\ (\A s \in Scans : sentry[s] # "card") => scanHistory = << >>

(* C28: every scan invocation that has finished has emitted a terminal event,
   a scanResult or a scanError, also when a step of it threw; and every
   invocation eventually has its terminal event. *)
C28_EveryScanEndsWithAnEvent ==
  /\ [](\A s \in Scans : Finished(s) => Terminal(s) # {})
  /\ []<>(\A s \in Scans : Invoked(s) => Terminal(s) # {})

C28_Witness ==
  \E s \in Scans :
    /\ spc[s] = "threw" /\ sentry[s] = "card"
    /\ Emitted(s, "scanError") # {} /\ Emitted(s, "scanResult") = {}

(* C30: the cardScanned event, the history entry and the scanResult of one
   scan all carry the upper-case hexadecimal form of the raw identifier, for
   every outcome. *)
C30_OneUidPerScan ==
  \A s \in Scans :
    Invoked(s) =>
      /\ \A i \in Emitted(s, "cardScanned") \cup Emitted(s, "scanResult") :
           slog[s][i].uid = Normalized(sraw[s])
      /\ Emitted(s, "cardScanned") # {} =>
           \E i \in 1..Len(scanHistory) : scanHistory[i].uid = Normalized(sraw[s])

C30_Witness ==
  \E s \in Scans :
    /\ sraw[s] = RawString(<< "b", "2" >>)
    /\ spc[s] = "done" /\ sfault[s]
    /\ \E i \in Results(s) : slog[s][i].uid = << "B", "2" >>

-----------------------------------------------------------------------------
(* Properties of purchase completion *)

PurchasesOf(b) == {p \in purchases : p.by = BuyerTag(b)}
Answered(b) == bpc[b] = "done"
Rejected(b) == Answered(b) /\ ~bres[b].success /\ PurchasesOf(b) = {}

RECURSIVE SumSubtotals(_)
SumSubtotals(items) ==
  IF items = << >> THEN 0 ELSE Head(items).subtotal + SumSubtotals(Tail(items))

(* C13: a request whose totalAmount differs by more than 0.01 from the sum of
   price x quantity of its items is rejected and persists no Purchase, at the
   HTTP route and at the real-time command alike. *)
C13_TotalMismatchRejected ==
  \A b \in Buys :
    (bentry[b] \in {"http", "socket"}
       /\ Abs(calculateTotal(breq[b].items) - breq[b].totalAmount) > 1) =>
      /\ PurchasesOf(b) = {}
      /\ Answered(b) => ~bres[b].success

(* C14: a cash request whose paidAmount is missing or less than the total fails
   with the insufficient-cash error and persists no Purchase; every persisted
   cash Purchase has cashAmount >= totalAmount. *)
C14_InsufficientCashRejected ==
  /\ \A b \in Buys :
       (Answered(b) /\ breq[b].paymentMethod = "cash"
          /\ RouteRefusal(breq[b]) = "" /\ TotalRefusal(breq[b]) = ""
          /\ validatePurchaseItems(breq[b].items) = ""
          /\ (breq[b].paidAmount = NULL \/ breq[b].paidAmount < breq[b].totalAmount)
          /\ bres[b].error # StorageError) =>
         /\ Rejected(b)
         /\ bres[b].error = "Insufficient cash amount"
  /\ \A p \in purchases :
       p.paymentMethod = "cash" => p.cashAmount >= p.totalAmount

(* C15: a cash purchase with paidAmount >= totalAmount is persisted paid, with a
   paid-at stamp, cashAmount = paidAmount and change = paidAmount - totalAmount
   (0 when equal), and the result reports the same change. *)
C15_CashChange ==
  \A b \in Buys :
    (Answered(b) /\ bres[b].success /\ breq[b].paymentMethod = "cash"
       /\ breq[b].paidAmount >= breq[b].totalAmount) =>
      /\ PurchasesOf(b) # {}
      /\ \A p \in PurchasesOf(b) :
           /\ p.paymentStatus = "paid"
           /\ p.paidAt # NULL
           /\ p.cashAmount = breq[b].paidAmount
           /\ p.change = breq[b].paidAmount - breq[b].totalAmount
           /\ bres[b].change = p.change

(* C16: every persisted Purchase has totalAmount within 0.01 of the sum of the
   subtotals of its items. *)
C16_TotalIsSumOfSubtotals ==
  \A p \in purchases : Abs(p.totalAmount - SumSubtotals(p.items)) <= 1

BillingNote == "Added to monthly bill - parent will be charged"

(* C17: a persisted Purchase is paid exactly when the request's payment method
   is cash; a monthly_billing purchase is pending and has the billing note
   appended to the request's notes; a purchase made for a served reservation is
   pending. *)
C17_PaidExactlyWhenCash ==
  \A b \in Buys : \A p \in PurchasesOf(b) :
    /\ p.paymentStatus = "paid" <=> breq[b].paymentMethod = "cash"
    /\ breq[b].paymentMethod = "monthly_billing" =>
         /\ p.paymentStatus = "pending"
         /\ p.notes = breq[b].notes \o << BillingNote >>
    /\ bentry[b] = "reservation" => p.paymentStatus = "pending"

C17_Witness ==
  \E b \in Buys : \E p \in PurchasesOf(b) :
    /\ Answered(b) /\ bres[b].success
    /\ breq[b].paymentMethod = "monthly_billing"
    /\ p.paymentStatus = "pending" /\ p.notes = << BillingNote >>

(* C18: completePurchase fails and persists no Purchase when the item list is
   empty or the person id is the id of no person. *)
C18_EmptyOrUnknownPersonRejected ==
  \A b \in Buys :
    (Answered(b) /\ bres[b].error # StorageError
       /\ (Len(breq[b].items) = 0 \/ breq[b].userId \notin DOMAIN users)) =>
      Rejected(b)

(* the handler answered the requester and afterwards sent the update to all
   clients *)
Broadcast(out, update) ==
  \E j \in 1..Len(out) :
    /\ out[j] = Sent(update, "all")
    /\ \E i \in 1..(j - 1) : out[i].to = "requester"

(* C27: every purchase completion that succeeded is followed by a purchaseUpdate
   sent to all clients, and every reservation confirmation that succeeded by a
   reservationUpdate sent to all clients, each after the requester's own
   answer, at the HTTP routes and at the socket commands alike. *)
C27_SuccessIsBroadcast ==
  /\ \A b \in Buys :
       (Answered(b) /\ bres[b].success /\ bentry[b] \in AnswerEntries) =>
         Broadcast(bout[b], "purchaseUpdate")
  /\ \A c \in Calls :
       (Returned(c) /\ cres[c].success /\ centry[c] \in AnswerEntries) =>
         Broadcast(cout[c], "reservationUpdate")

-----------------------------------------------------------------------------
(* Properties of the read paths *)

(* task s takes the step that follows the await at position pc *)
Resumes(s, pc) == spc[s] = pc /\ spc'[s] # pc

(* the awaited storage call of that step failed *)
Fails(s) == ~sfault[s] /\ sfault'[s]

(* C31: a storage failure on a read path is never thrown to the caller: the
   person lookups, the reservation detail, the purchase history and the
   available foods return null or an empty result; a scan whose person lookup
   fails ends in a User not found result, a scan whose reservation query fails
   ends in a success result with an empty reservation list, and neither ends
   in an exception or a processing error. *)
C31_ReadFailuresAreNotThrown ==
  /\ [](qres.name # "" =>
          /\ ~qres.out.threw
          /\ ~qres.ok => qres.out = Fallback(qres.name))
  /\ [][\A s \in Scans :
          /\ (Resumes(s, "lookup") /\ Fails(s)) =>
               /\ spc'[s] = "done"
               /\ slog'[s][Len(slog'[s])].kind = "emit"
               /\ slog'[s][Len(slog'[s])].name = "scanResult"
               /\ slog'[s][Len(slog'[s])].error = "User not found"
          /\ (Resumes(s, "reservations") /\ Fails(s)) =>
               /\ spc'[s] # "threw"
               /\ \E i \in 1..Len(slog'[s]) :
                    /\ slog'[s][i].kind = "emit" /\ slog'[s][i].name = "scanResult"
                    /\ slog'[s][i].success
                    /\ slog'[s][i].data.reservations = {}]_vars
  /\ [](\A s \in Scans :
          /\ spc[s] = "threw" => ToStringThrows(sraw[s])
          /\ \A i \in 1..Len(slog[s]) :
               slog[s][i].error \notin {"Processing error", "TypeError"}
                 \/ ToStringThrows(sraw[s]))

C31_Witness ==
  /\ qres.name = "getReservationById" /\ qres.arg = 1 /\ ~qres.ok
  /\ qres.out.value = NoDoc
  /\ \E s \in Scans :
       /\ spc[s] = "done" /\ sfault[s]
       /\ TodayReservations(reservations, sdoc[s].id, now) # {}
       /\ \E i \in SuccessResults(s) : slog[s][i].data.reservations = {}

-----------------------------------------------------------------------------
(* Properties of the reservation list of a scan *)

OpenStatuses == {"pending", "confirmed", "prepared"}

(* C32: the reservation list of a success scanResult holds only reservations
   of the scanned person, dated today, whose status is pending, confirmed or
   prepared when the list is read; a reservation that is served or cancelled
   by then is not in the list of that scan nor of any later one. *)
C32_ListHoldsOpenReservationsOfToday ==
  /\ [](\A s \in Scans : \A i \in SuccessResults(s) :
          \A r \in slog[s][i].data.reservations :
            /\ reservations[r].studentId = slog[s][i].data.user.id
            /\ Owners(slog[s][i].uid) = {reservations[r].studentId}
            /\ reservations[r].reservationDate \div DayLength = now \div DayLength)
  /\ [][\A s \in Scans : Resumes(s, "reservations") =>
          \A i \in 1..Len(slog'[s]) :
            (slog'[s][i].kind = "emit" /\ slog'[s][i].name = "scanResult"
               /\ slog'[s][i].success) =>
              \A r \in slog'[s][i].data.reservations :
                /\ reservations[r].status \in OpenStatuses
                /\ reservations[r].status \notin {"served", "cancelled"}]_vars

(* a scan of the person whose reservation of today was confirmed before its
   list was read lists nothing *)
C32_Witness ==
  /\ cpc[1] = "done" /\ cres[1].success
  /\ reservations[1].status = "served" /\ reservations[1].studentId = 1
  /\ reservations[1].reservationDate = now
  /\ ~sfault[1]
  /\ \E i \in SuccessResults(1) :
       slog[1][i].data.reservations = {} /\ slog[1][i].data.user.id = 1

-----------------------------------------------------------------------------
(* Properties of the scan bookkeeping *)

(* the scans of person id that ended in a success result and have completed *)
SucceededFor(id) ==
  {s \in Scans : spc[s] = "done" /\ \E i \in SuccessResults(s) :
                                      slog[s][i].data.user.id = id}

Quiet == \A s \in Scans : spc[s] \in {"idle", "done"}

(* C33: once the scans have completed, with no storage failure, the stored
   scanCount of each person has grown by the number of successful scans of
   that person, whatever their interleaving. *)
C33_ScanCountCountsEveryScan ==
  (Quiet /\ \A s \in Scans : ~sfault[s]) =>
    \A id \in UserIds : users[id].scanCount = Cardinality(SucceededFor(id))

(* task s is in, or has gone through, updateLastScan *)
UpdateAttempted(s) == Called(s, "updateLastScan") # {}

(* C34: in a successful scan the success scanResult is emitted before
   updateLastScan is called, and nothing is emitted after it: when the update
   fails, the success result stays the only and last scanResult of the scan,
   and no processing-error result nor scanError follows it. *)
C34_SuccessPrecedesUpdate ==
  \A s \in Scans :
    /\ UpdateAttempted(s) => SuccessResults(s) # {}
    /\ \A i \in SuccessResults(s) :
         /\ \A j \in Called(s, "updateLastScan") : i < j
         /\ Results(s) = {i}
         /\ Emitted(s, "scanError") = {}
         /\ \A j \in 1..Len(slog[s]) : j > i => slog[s][j].kind = "call"

(* the reservations were read, the success was emitted, the update failed *)
C34_Witness ==
  \E s \in Scans :
    /\ spc[s] = "done" /\ sfault[s]
    /\ \E i \in SuccessResults(s) : slog[s][i].data.reservations # {}
    /\ users[sdoc[s].id].scanCount = 0

-----------------------------------------------------------------------------
(* Properties of the reader connection *)

(* C35: an end or error event of a reader that is not the current one (it was
   superseded by a reader detected later) changes neither the status nor the
   reader handle of the current connection. *)
C35_SupersededReaderChangesNothing ==
  [][(Handles("supersededEnd") \/ Handles("supersededError")) =>
       (connected' = connected /\ reader' = reader)]_vars

(* C36: from the return of the shutdown's disconnect() on, as long as no
   caller invokes reconnect(), the status is disconnected: no reconnect timer
   scheduled earlier makes the reader connected again. *)
C36_DisconnectedUntilAsked ==
  released => ~connected

-----------------------------------------------------------------------------
(* Properties of the processed flag of the scan history *)

(* task s has put an entry in the history *)
Recorded(s) == spc[s] \notin {"idle", "threw", "refused"}

(* the number of that entry: the tasks start in the order of their numbers *)
OwnEntry(s) == Cardinality({d \in Scans : d <= s /\ Recorded(d)})

(* C37: a history entry is marked processed exactly when the scan that made
   it has emitted a success result, whatever the interleaving of the scans. *)
C37_ProcessedIffOwnScanSucceeded ==
  \A i \in 1..Len(scanHistory) :
    scanHistory[i].processed <=>
      \E s \in Scans :
        Recorded(s) /\ OwnEntry(s) = scanHistory[i].seq /\ SuccessResults(s) # {}

-----------------------------------------------------------------------------
(* Properties of a failed completion *)

(* C38: a completePurchase call that reports a failure to its caller has
   persisted no Purchase, also when the failure is that of the person update
   that follows the save. *)
C38_FailureLeavesNoPurchase ==
  \A b \in Buys : (Answered(b) /\ ~bres[b].success) => PurchasesOf(b) = {}

(* C39: a completePurchase or confirmReservation command that fails sends
   purchaseError / reservationError to the requesting client and nothing
   else: no purchaseCompleted, reservationConfirmed, purchaseUpdate or
   reservationUpdate, and nothing to the other clients. *)
C39_FailedCommandOnlyReportsError ==
  /\ \A b \in Buys :
       (Answered(b) /\ bentry[b] = "socket" /\ ~bres[b].success) =>
         /\ Len(bout[b]) = 1
         /\ \A i \in 1..Len(bout[b]) :
              bout[b][i].name = "purchaseError" /\ bout[b][i].to = "requester"
  /\ \A c \in Calls :
       (Returned(c) /\ centry[c] = "socket" /\ ~cres[c].success) =>
         /\ Len(cout[c]) = 1
         /\ \A i \in 1..Len(cout[c]) :
              cout[c][i].name = "reservationError" /\ cout[c][i].to = "requester"

(* a purchase command failed after its Purchase was saved, and a confirmation
   command was refused *)
C39_Witness ==
  /\ \E b \in Buys :
       /\ Answered(b) /\ bentry[b] = "socket" /\ ~bres[b].success
       /\ PurchasesOf(b) # {}
       /\ bout[b] = << Sent("purchaseError", "requester") >>
  /\ \E c \in Calls :
       /\ Returned(c) /\ centry[c] = "socket" /\ ~cres[c].success
       /\ cout[c] = << Sent("reservationError", "requester") >>

=============================================================================
